---------------------------- MODULE Spec2Model ----------------------------
(***************************************************************************)
(* SidekickOS firmware (src/firmware/main/main.c): the BLE control         *)
(* interpreter, the chunked image transfer, the streaming task, the audio  *)
(* task with its noise gate and filter, and the mu-law encoder.            *)
(*                                                                         *)
(* Conventions                                                             *)
(*  - frame_interval is a C float holding seconds; the model holds it in   *)
(*    thousandths of a second (0.033f is 33, 0.1f is 100, 60.0f is 60000), *)
(*    so (int)(frame_interval * 1000) is the model value itself.           *)
(*  - a C string is a sequence of one-character strings.                   *)
(*  - a byte buffer is a sequence of numbers in 0..255.                    *)
(*  - size_t and TickType_t are 32 bits wide; every length, offset and    *)
(*    tick count the model reaches stays far below 2^31, so their         *)
(*    arithmetic is written without the wrap.                              *)
(*  - an int16_t is a number in -32768..32767; a store into one keeps    *)
(*    the low 16 bits (ToInt16); a value C leaves undefined is a choice    *)
(*    among the values the variable can hold.                              *)
(*  - each step of a task between two points where the task can be        *)
(*    preempted or blocks (a link send, a frame acquisition, a vTaskDelay) *)
(*    is one action; a GATT callback runs as one action. The test and the  *)
(*    clearing of capture_image_requested are two actions: a callback can  *)
(*    run between them.                                                    *)
(***************************************************************************)
EXTENDS Integers, Sequences, FiniteSets, TLC

(***************************************************************************)
(* Bounds of the model (not program constants).                            *)
(***************************************************************************)
\* the longest blob the camera delivers spans this many full chunks
MaxChunks == 2
\* failures the collaborators may answer with in one behaviour: a link send
\* that fails, a scratch buffer that cannot be allocated, a frame that is
\* not delivered
MaxFaults == 1
\* connections the peer may open in one behaviour
MaxConnects == 2
\* the tick count at which the model stops the clock
MaxTick == 5
\* the same, in the specification that records the history of the loop:
\* two frame periods
MaxLoopTick == 6
\* the ESP_GATTS_ADD_CHAR_EVT events the stack may deliver in the
\* specification of the registration
MaxCharEvts == 7
\* the span of the clock that runs on: TickType_t scaled down from 2^32
ClockSpan == 8
\* the span of the frame counters when the clock runs on: uint32_t scaled
\* down from 2^32
CounterSpan == 2
\* linear_to_mulaw is called on the inputs this close to a segment boundary
MulawSpan == 3
\* the arithmetic of send_image_chunks is run on the lengths and the chunk
\* positions this close to a boundary of its 16-bit and 32-bit fields
PlanSpan == 3
\* the longest window i2s_read delivers, in samples (the buffer holds
\* FRAME_SIZE = 160)
MaxWindow == 2
\* the tick count at which the model stops the clock of the audio task
MaxAudioTick == 20
\* the history counts this many CAPTURE commands not yet served
MaxCredit == 2

(***************************************************************************)
(* Program constants.                                                      *)
(***************************************************************************)
max_chunk_size == 510
header_size == 7
\* FreeRTOS tick rate behind pdMS_TO_TICKS (ESP-IDF default configuration)
configTICK_RATE_HZ == 100
\* characteristics the service registers
NumChars == 5
\* the local MTU requested on connect
LocalMtu == 517

Min(a, b) == IF a < b THEN a ELSE b
Max(a, b) == IF a > b THEN a ELSE b

pdMS_TO_TICKS(ms) == (ms * configTICK_RATE_HZ) \div 1000

(***************************************************************************)
(* C strings and the libc parsers the interpreter uses.                    *)
(***************************************************************************)
CMD_CAPTURE      == <<"C", "A", "P", "T", "U", "R", "E">>
CMD_START_FRAMES == <<"S", "T", "A", "R", "T", "_", "F", "R", "A", "M", "E", "S">>
CMD_STOP_FRAMES  == <<"S", "T", "O", "P", "_", "F", "R", "A", "M", "E", "S">>
CMD_START_AUDIO  == <<"S", "T", "A", "R", "T", "_", "A", "U", "D", "I", "O">>
CMD_STOP_AUDIO   == <<"S", "T", "O", "P", "_", "A", "U", "D", "I", "O">>
CMD_INTERVAL     == <<"I", "N", "T", "E", "R", "V", "A", "L", ":">>
CMD_QUALITY      == <<"Q", "U", "A", "L", "I", "T", "Y", ":">>
CMD_SIZE         == <<"S", "I", "Z", "E", ":">>
CMD_STATUS       == <<"S", "T", "A", "T", "U", "S">>

\* mutant of strcmp0: only the first five characters are compared
strcmp0_Start5(a, b) ==
    SubSeq(a, 1, Min(5, Len(a))) = SubSeq(b, 1, Min(5, Len(b)))

\* strcmp(a, b) == 0
strcmp0(a, b) == a = b

\* strncmp(a, b, n) == 0 for a literal b of length n
strncmp0(a, b, n) == Len(a) >= n /\ SubSeq(a, 1, n) = SubSeq(b, 1, n)

\* command + n: the rest of the string after its first n characters
StrFrom(s, n) == SubSeq(s, n + 1, Len(s))

IsDigit(c) == c \in {"0", "1", "2", "3", "4", "5", "6", "7", "8", "9"}

DigitVal(c) ==
    CASE c = "0" -> 0 [] c = "1" -> 1 [] c = "2" -> 2 [] c = "3" -> 3
      [] c = "4" -> 4 [] c = "5" -> 5 [] c = "6" -> 6 [] c = "7" -> 7
      [] c = "8" -> 8 [] c = "9" -> 9

RECURSIVE SkipSpace(_, _)
\* index of the first character of s at or after i that is not white space
SkipSpace(s, i) ==
    IF i <= Len(s) /\ s[i] = " " THEN SkipSpace(s, i + 1) ELSE i

RECURSIVE DigitRun(_, _)
\* number of consecutive decimal digits of s starting at index i
DigitRun(s, i) ==
    IF i <= Len(s) /\ IsDigit(s[i]) THEN 1 + DigitRun(s, i + 1) ELSE 0

RECURSIVE DigitsValue(_, _, _)
\* value of the n decimal digits of s starting at index i
DigitsValue(s, i, n) ==
    IF n = 0 THEN 0 ELSE DigitsValue(s, i, n - 1) * 10 + DigitVal(s[i + n - 1])

Pow10(n) == CASE n = 0 -> 1 [] n = 1 -> 10 [] n = 2 -> 100 [] n = 3 -> 1000

\* atoi: optional white space, optional sign, the longest run of digits;
\* 0 when no digit follows
atoi(s) ==
    LET i0  == SkipSpace(s, 1)
        neg == i0 <= Len(s) /\ s[i0] = "-"
        i1  == IF i0 <= Len(s) /\ s[i0] \in {"-", "+"} THEN i0 + 1 ELSE i0
        n   == DigitRun(s, i1)
        v   == DigitsValue(s, i1, n)
    IN  IF neg THEN 0 - v ELSE v

\* atof, in thousandths: optional white space, optional sign, digits, an
\* optional fraction (its first three digits are kept); 0 when no number
\* starts the string
atof(s) ==
    LET i0  == SkipSpace(s, 1)
        neg == i0 <= Len(s) /\ s[i0] = "-"
        i1  == IF i0 <= Len(s) /\ s[i0] \in {"-", "+"} THEN i0 + 1 ELSE i0
        n   == DigitRun(s, i1)
        ip  == DigitsValue(s, i1, n)
        dot == i1 + n <= Len(s) /\ s[i1 + n] = "."
        m   == IF dot THEN DigitRun(s, i1 + n + 1) ELSE 0
        k   == Min(m, 3)
        fp  == IF n + m = 0 THEN 0
               ELSE DigitsValue(s, i1 + n + 1, k) * Pow10(3 - k)
        v   == IF n + m = 0 THEN 0 ELSE ip * 1000 + fp
    IN  IF neg THEN 0 - v ELSE v

fminf(a, b) == Min(a, b)
fmaxf(a, b) == Max(a, b)


(***************************************************************************)
(* linear_to_mulaw                                                         *)
(***************************************************************************)
BIAS == 132
CLIP == 32635

\* the value an int16_t holds after x is stored into it
ToInt16(x) == ((x + 32768) % 65536) - 32768

\* (v & mask) != 0 for a mask of one bit among the low 16
BitSet(v, mask) == ((v % 65536) \div mask) % 2 = 1

RECURSIVE Pow2(_)
Pow2(n) == IF n = 0 THEN 1 ELSE 2 * Pow2(n - 1)

\* the loop that lowers exponent while the bit under expMask is clear
RECURSIVE MulawExponent(_, _, _)
MulawExponent(v, exponent, expMask) ==
    IF ~BitSet(v, expMask) /\ exponent > 0
    THEN MulawExponent(v, exponent - 1, expMask \div 2)
    ELSE exponent

\* linear_to_mulaw(pcm_val), pcm_val an int16_t; every assignment to pcm_val
\* stores into 16 bits, and >> on a negative value keeps the sign
linear_to_mulaw(pcm_val) ==
    LET sign     == IF pcm_val < 0 THEN 128 ELSE 0
        negated  == IF pcm_val < 0 THEN ToInt16(0 - pcm_val) ELSE pcm_val
        clipped  == IF negated > CLIP THEN CLIP ELSE negated
        biased   == ToInt16(clipped + BIAS)
        exponent == MulawExponent(biased, 7, 16384)
        shift    == IF exponent = 0 THEN 4 ELSE exponent + 3
        mantissa == (biased \div Pow2(shift)) % 16
    IN  255 - (sign + exponent * 16 + mantissa)

(***************************************************************************)
(* State.                                                                  *)
(***************************************************************************)
VARIABLES
    \* globals of main.c
    ble_device_connected, frame_streaming_enabled, audio_streaming_enabled,
    capture_image_requested, frame_interval, image_quality, current_frame_size,
    conn_id, char_count,
    control_handle, status_handle, image_handle, frame_handle, audio_handle,
    \* the calls of esp_ble_gatts_add_char made so far
    char_requests,
    \* streaming_task: its position and locals
    pc, current_time, last_frame_time, frame_count, failed_frames, fb,
    \* send_image_chunks: its arguments and locals
    image_len, char_handle, is_frame, total_chunks, chunk_idx, successful_chunks,
    chunk_packet,
    \* the collaborators: camera sensor, link, clock
    sensor, emitted, negotiated_mtu, link_sessions, tick,
    \* the failures the collaborators have answered with so far
    faults,
    \* history: the last control write handled, the progress of the
    \* START_FRAMES, INTERVAL:0.05, INTERVAL:100 scenario, and the outcome of
    \* the last send_image_chunks call
    last_write, scenario, sic_outcome,
    \* history: flips at every control write that is interpreted
    write_seq,
    \* WRITE_EVT: whether the copy of the last interpreted write went past
    \* the end of char command[256]
    command_overrun,
    \* init_microphone: audio_buffer, mulaw_buffer, i2s_driver_installed,
    \* audio_initialized
    mic,
    \* audio_task: its position and locals
    audio_pc, audio_time, last_audio_time,
    \* send_audio_data: its statics, and of the call in progress the window
    \* read, the level computed and the packet handed to the link
    adaptive_threshold, prev_sample, audio_window, rms_level, audio_out,
    \* history: the last raw sample that went through the filter
    raw_hist,
    \* linear_to_mulaw called on its own: the argument and the result of the
    \* last call, each as a sequence of one value, empty before the first call
    mulaw_in, mulaw_out,
    \* the arithmetic of send_image_chunks on its own: the image_len of the
    \* last call as two 16-bit halves, and what the call computes from it,
    \* each as a sequence of one value, empty before the first call
    plan_in, plan_out,
    \* history of the streaming loop, kept by the specifications that set
    \* recording: what the iteration in progress owes to the one-shot request
    \* it started with; the periodic transfers started since
    \* frame_streaming_enabled was last cleared; the CAPTURE commands received
    \* less the one-shot captures served
    recording, oneshot, stale_starts, capture_credit,
    \* history: the conn_id on which the start packet of the transfer in
    \* progress was sent, 0 outside a transfer
    xfer_conn,
    \* whether the clock of this behaviour runs on and wraps (TRUE) or stops
    \* at TickLimit (FALSE)
    free_running

config_vars == <<ble_device_connected, frame_streaming_enabled,
                 audio_streaming_enabled, capture_image_requested,
                 frame_interval, image_quality, current_frame_size>>
handle_vars == <<char_count, control_handle, status_handle, image_handle,
                 frame_handle, audio_handle, char_requests>>
task_vars   == <<pc, current_time, last_frame_time, frame_count, failed_frames, fb>>
sic_vars    == <<image_len, char_handle, is_frame, total_chunks, chunk_idx,
                 successful_chunks, sic_outcome, chunk_packet>>
link_vars   == <<emitted, negotiated_mtu, link_sessions, conn_id>>
budget_vars == <<faults>>
hist_vars   == <<last_write, scenario, write_seq>>
audio_vars  == <<mic, audio_pc, audio_time, last_audio_time,
                 adaptive_threshold, prev_sample, audio_window, rms_level,
                 audio_out, raw_hist>>
codec_vars  == <<mulaw_in, mulaw_out, plan_in, plan_out>>
loop_hist   == <<recording, oneshot, stale_starts, capture_credit, xfer_conn,
                 free_running>>

\* the next value of a history variable: new when the history is kept
Record(new, old) == IF recording THEN new ELSE old
\* what the camera path leaves alone
rest_vars   == <<audio_vars, codec_vars, command_overrun>>
\* what the link events leave alone
aux_vars    == <<rest_vars, loop_hist>>

vars == <<config_vars, handle_vars, task_vars, sic_vars, link_vars,
          budget_vars, hist_vars, sensor, tick, aux_vars>>

NULL == "NULL"
ESP_OK == "ESP_OK"
ESP_FAIL == "ESP_FAIL"

\* framesize_t values selected by SIZE:0 .. SIZE:13, in the order of the switch
FrameSizes == <<"FRAMESIZE_96X96", "FRAMESIZE_QQVGA", "FRAMESIZE_QCIF",
                "FRAMESIZE_HQVGA", "FRAMESIZE_240X240", "FRAMESIZE_QVGA",
                "FRAMESIZE_CIF", "FRAMESIZE_HVGA", "FRAMESIZE_VGA",
                "FRAMESIZE_SVGA", "FRAMESIZE_XGA", "FRAMESIZE_HD",
                "FRAMESIZE_SXGA", "FRAMESIZE_UXGA">>

\* init_camera: with a sensor, the frame size and the quality are pushed to
\* it; frames_out counts the frames the driver has handed out and not got back
CameraInit(available) ==
    IF available
    THEN [available |-> TRUE, quality |-> 25, framesize |-> "FRAMESIZE_QVGA",
          last_res |-> ESP_OK, frames_out |-> 0]
    ELSE [available |-> FALSE, quality |-> 0, framesize |-> NULL,
          last_res |-> NULL, frames_out |-> 0]

\* init_microphone: the step at which it gives up, "ok" when it completes
MicOutcomes == {"no_audio_buffer", "no_mulaw_buffer", "no_driver", "no_pins",
                "no_downsample", "ok"}

\* mutant of MicInit: audio_initialized is set before the PDM setting
MicInit_EarlyFlag(outcome) ==
    [audio_buffer |-> IF outcome = "no_audio_buffer" THEN NULL
                      ELSE IF outcome = "no_mulaw_buffer" THEN "freed"
                      ELSE "allocated",
     mulaw_buffer |-> IF outcome \in {"no_audio_buffer", "no_mulaw_buffer"}
                      THEN NULL ELSE "allocated",
     i2s_driver_installed |-> outcome \in {"no_pins", "no_downsample", "ok"},
     audio_initialized |-> outcome \in {"no_downsample", "ok"},
     step |-> outcome]

\* init_microphone: what it leaves behind; a freed audio_buffer keeps its
\* address; step is the history of the call, the step at which it gave up
MicInit(outcome) ==
    [audio_buffer |-> IF outcome = "no_audio_buffer" THEN NULL
                      ELSE IF outcome = "no_mulaw_buffer" THEN "freed"
                      ELSE "allocated",
     mulaw_buffer |-> IF outcome \in {"no_audio_buffer", "no_mulaw_buffer"}
                      THEN NULL ELSE "allocated",
     i2s_driver_installed |-> outcome \in {"no_pins", "no_downsample", "ok"},
     audio_initialized |-> outcome = "ok",
     step |-> outcome]

\* the state when app_main has created the tasks, the microphone left aside
InitCore ==
    /\ ble_device_connected = FALSE
    /\ frame_streaming_enabled = FALSE
    /\ audio_streaming_enabled = FALSE
    /\ capture_image_requested = FALSE
    /\ frame_interval = 33
    /\ image_quality = 25
    /\ current_frame_size = "FRAMESIZE_QVGA"
    /\ conn_id = 0
    /\ char_count = 0
    \* ESP_GATTS_CREATE_EVT has asked for the control characteristic
    /\ char_requests = 1
    /\ control_handle = 0 /\ status_handle = 0 /\ image_handle = 0
    /\ frame_handle = 0 /\ audio_handle = 0
    /\ pc = "loop_top"
    /\ current_time = 0 /\ last_frame_time = 0
    /\ frame_count = 0 /\ failed_frames = 0
    /\ fb = NULL
    /\ image_len = 0 /\ char_handle = 0 /\ is_frame = FALSE
    /\ total_chunks = 0 /\ chunk_idx = 0 /\ successful_chunks = 0
    /\ sic_outcome = "none"
    /\ chunk_packet = NULL
    /\ \E available \in BOOLEAN : sensor = CameraInit(available)
    /\ emitted = <<>>
    /\ negotiated_mtu = 0
    /\ link_sessions = 0
    /\ tick = 0
    /\ faults = 0
    /\ last_write = <<>>
    /\ scenario = 0
    /\ write_seq = 0
    /\ command_overrun = FALSE
    /\ audio_pc = "audio_top"
    /\ audio_time = 0 /\ last_audio_time = 0
    /\ adaptive_threshold = 50
    /\ prev_sample = 0
    /\ audio_window = <<>> /\ rms_level = 0 /\ audio_out = <<>>
    /\ raw_hist = 0
    /\ mulaw_in = <<>> /\ mulaw_out = <<>>
    /\ plan_in = <<>> /\ plan_out = <<>>
    /\ oneshot = "none" /\ stale_starts = 0 /\ capture_credit = 0
    /\ xfer_conn = 0

\* the state when app_main has created the tasks and init_microphone has
\* completed
Init ==
    /\ InitCore
    /\ mic = MicInit("ok")
    /\ recording = FALSE /\ free_running = FALSE

\* the same, the history of the streaming loop being kept
InitLoop ==
    /\ InitCore
    /\ mic = MicInit("ok")
    /\ recording = TRUE /\ free_running = FALSE

\* the same, with every outcome of init_microphone
InitAudio ==
    /\ InitCore
    /\ \E outcome \in MicOutcomes : mic = MicInit(outcome)
    /\ recording = FALSE /\ free_running = FALSE

(***************************************************************************)
(* handle_control_command                                                  *)
(***************************************************************************)
\* mutant of ClampInterval: the upper clamp is lost
ClampInterval_NoCeiling(x) == fmaxf(100, x)

\* INTERVAL: fmaxf(0.1f, fminf(60.0f, atof(arg)))
ClampInterval(x) == fmaxf(100, fminf(60000, x))

\* QUALITY: (q < 4) ? 4 : (q > 63) ? 63 : q
ClampQuality(q) == IF q < 4 THEN 4 ELSE IF q > 63 THEN 63 ELSE q

\* width and height of the frame sizes, in the order of the switch
FrameDims == << <<96, 96>>, <<160, 120>>, <<176, 144>>, <<240, 176>>,
               <<240, 240>>, <<320, 240>>, <<400, 296>>, <<480, 320>>,
               <<640, 480>>, <<800, 600>>, <<1024, 768>>, <<1280, 720>>,
               <<1280, 1024>>, <<1600, 1200>> >>

\* mutant of SizeSwitch: the cases are numbered from 1
SizeSwitch_OneBased(size_value) ==
    IF size_value \in 1..14 THEN FrameSizes[size_value] ELSE NULL

\* the switch of SIZE: the frame size for size_value, NULL for the default case
SizeSwitch(size_value) ==
    IF size_value \in 0..13 THEN FrameSizes[size_value + 1] ELSE NULL

\* send_ble_status: formats the status text and writes it to the log; it
\* hands nothing to the link
send_ble_status == TRUE

handle_control_command(command) ==
    IF strcmp0(command, CMD_CAPTURE) THEN
        /\ capture_image_requested' = TRUE
        /\ UNCHANGED <<ble_device_connected, frame_streaming_enabled,
                       audio_streaming_enabled, frame_interval, image_quality,
                       current_frame_size, sensor>>
    ELSE IF strcmp0(command, CMD_START_FRAMES) THEN
        /\ frame_streaming_enabled' = TRUE
        /\ UNCHANGED <<ble_device_connected, audio_streaming_enabled,
                       capture_image_requested, frame_interval, image_quality,
                       current_frame_size, sensor>>
    ELSE IF strcmp0(command, CMD_STOP_FRAMES) THEN
        /\ frame_streaming_enabled' = FALSE
        /\ UNCHANGED <<ble_device_connected, audio_streaming_enabled,
                       capture_image_requested, frame_interval, image_quality,
                       current_frame_size, sensor>>
    ELSE IF strcmp0(command, CMD_START_AUDIO) THEN
        /\ audio_streaming_enabled' = TRUE
        /\ UNCHANGED <<ble_device_connected, frame_streaming_enabled,
                       capture_image_requested, frame_interval, image_quality,
                       current_frame_size, sensor>>
    ELSE IF strcmp0(command, CMD_STOP_AUDIO) THEN
        /\ audio_streaming_enabled' = FALSE
        /\ UNCHANGED <<ble_device_connected, frame_streaming_enabled,
                       capture_image_requested, frame_interval, image_quality,
                       current_frame_size, sensor>>
    ELSE IF strncmp0(command, CMD_INTERVAL, 9) THEN
        /\ frame_interval' = ClampInterval(atof(StrFrom(command, 9)))
        /\ UNCHANGED <<ble_device_connected, frame_streaming_enabled,
                       audio_streaming_enabled, capture_image_requested,
                       image_quality, current_frame_size, sensor>>
    ELSE IF strncmp0(command, CMD_QUALITY, 8) THEN
        /\ image_quality' = ClampQuality(atoi(StrFrom(command, 8)))
        /\ sensor' = IF sensor.available
                     THEN [sensor EXCEPT !.quality = image_quality']
                     ELSE sensor
        /\ UNCHANGED <<ble_device_connected, frame_streaming_enabled,
                       audio_streaming_enabled, capture_image_requested,
                       frame_interval, current_frame_size>>
    ELSE IF strncmp0(command, CMD_SIZE, 5) THEN
        LET new_frame_size == SizeSwitch(atoi(StrFrom(command, 5))) IN
        IF new_frame_size = NULL \/ ~sensor.available THEN
            UNCHANGED <<config_vars, sensor>>
        ELSE
            \* s->set_framesize may refuse; the size is stored when it accepts
            \E res \in {ESP_OK, ESP_FAIL} :
                /\ sensor' = IF res = ESP_OK
                             THEN [sensor EXCEPT !.framesize = new_frame_size,
                                                 !.last_res = res]
                             ELSE [sensor EXCEPT !.last_res = res]
                /\ current_frame_size' = IF res = ESP_OK THEN new_frame_size
                                         ELSE current_frame_size
                /\ UNCHANGED <<ble_device_connected, frame_streaming_enabled,
                               audio_streaming_enabled, capture_image_requested,
                               frame_interval, image_quality>>
    ELSE IF strcmp0(command, CMD_STATUS) THEN
        /\ send_ble_status
        /\ UNCHANGED <<config_vars, sensor>>
    ELSE
        UNCHANGED <<config_vars, sensor>>

(***************************************************************************)
(* gatts_profile_a_event_handler                                           *)
(***************************************************************************)
\* the attribute handle the stack reports for the n-th characteristic added
AttrHandle(n) == 40 + 3 * n

ESP_GATT_OK == "ESP_GATT_OK"
ESP_GATT_ERROR == "ESP_GATT_ERROR"

\* param->add_char.attr_handle: the handle of the characteristic, 0 when the
\* stack could not add it
ReportedHandle(n, status) == IF status = ESP_GATT_OK THEN AttrHandle(n) ELSE 0

\* mutant of CharRequests: the next characteristic is asked for only after
\* an event that reports success
CharRequests_OnSuccess(n, status, requests) ==
    IF n <= 4 /\ status = ESP_GATT_OK THEN requests + 1 ELSE requests

\* the branches for char_count 1 to 4 end with esp_ble_gatts_add_char for
\* the next characteristic; the status of the event is only logged
CharRequests(n, status, requests) ==
    IF n <= 4 THEN requests + 1 ELSE requests

\* ESP_GATTS_ADD_CHAR_EVT with the given status: char_count++, then the
\* branch of the new count stores the handle and asks for the next
\* characteristic; no branch for a count above 5
AddCharBody(status) ==
    /\ char_count' = char_count + 1
    /\ LET h == ReportedHandle(char_count', status) IN
        /\ control_handle' = IF char_count' = 1 THEN h ELSE control_handle
        /\ status_handle'  = IF char_count' = 2 THEN h ELSE status_handle
        /\ image_handle'   = IF char_count' = 3 THEN h ELSE image_handle
        /\ frame_handle'   = IF char_count' = 4 THEN h ELSE frame_handle
        /\ audio_handle'   = IF char_count' = 5 THEN h ELSE audio_handle
    /\ char_requests' = CharRequests(char_count', status, char_requests)
    /\ UNCHANGED <<config_vars, task_vars, sic_vars, link_vars, budget_vars,
                   hist_vars, sensor, tick>>
    /\ UNCHANGED aux_vars

\* ESP_GATTS_ADD_CHAR_EVT: the stack answers a request, the characteristic
\* added
AddCharEvt ==
    /\ char_count < NumChars
    /\ char_count < char_requests
    /\ AddCharBody(ESP_GATT_OK)

\* ESP_GATTS_ADD_CHAR_EVT: the stack answers a request with an error status
AddCharFailEvt ==
    /\ char_count < NumChars
    /\ char_count < char_requests
    /\ AddCharBody(ESP_GATT_ERROR)

\* ESP_GATTS_ADD_CHAR_EVT: an event beyond the five requests
AddCharLateEvt ==
    /\ NumChars <= char_count /\ char_count < MaxCharEvts
    /\ \E status \in {ESP_GATT_OK, ESP_GATT_ERROR} : AddCharBody(status)

\* ESP_GATTS_CONNECT_EVT; the link gives each connection a fresh id and
\* starts it with no MTU negotiated
ConnectEvt ==
    /\ ~ble_device_connected
    /\ char_count = NumChars
    /\ link_sessions < MaxConnects
    /\ link_sessions' = link_sessions + 1
    /\ conn_id' = link_sessions'
    /\ ble_device_connected' = TRUE
    /\ negotiated_mtu' = 0
    /\ send_ble_status
    /\ UNCHANGED <<frame_streaming_enabled, audio_streaming_enabled,
                   capture_image_requested, frame_interval, image_quality,
                   current_frame_size, handle_vars, task_vars, sic_vars,
                   emitted, budget_vars, hist_vars, sensor, tick>>
    /\ UNCHANGED aux_vars

\* mutant of DisconnectEvt: the disconnect withdraws the streaming flag and
\* the pending capture
DisconnectEvt_ResetsRequests ==
    /\ ble_device_connected
    /\ ble_device_connected' = FALSE
    \* history: the iteration in progress no longer runs on a connected link
    /\ oneshot' = "none"
    /\ frame_streaming_enabled' = FALSE /\ capture_image_requested' = FALSE
    /\ UNCHANGED <<audio_streaming_enabled, frame_interval, image_quality,
                   current_frame_size, handle_vars, task_vars, sic_vars,
                   link_vars, budget_vars, hist_vars, sensor, tick>>
    /\ UNCHANGED <<rest_vars, recording, free_running, stale_starts, capture_credit, xfer_conn>>

\* ESP_GATTS_DISCONNECT_EVT
DisconnectEvt ==
    /\ ble_device_connected
    /\ ble_device_connected' = FALSE
    \* history: the iteration in progress no longer runs on a connected link
    /\ oneshot' = "none"
    /\ UNCHANGED <<frame_streaming_enabled, audio_streaming_enabled,
                   capture_image_requested, frame_interval, image_quality,
                   current_frame_size, handle_vars, task_vars, sic_vars,
                   link_vars, budget_vars, hist_vars, sensor, tick>>
    /\ UNCHANGED <<rest_vars, recording, free_running, stale_starts, capture_credit, xfer_conn>>

\* the MTU values a peer may settle on
MtuValues == {185, LocalMtu}

\* ESP_GATTS_MTU_EVT: the handler logs the value and stores nothing; the
\* model keeps it as the link's state
MtuEvt(mtu) ==
    /\ ble_device_connected
    /\ negotiated_mtu = 0
    /\ negotiated_mtu' = mtu
    /\ UNCHANGED <<config_vars, handle_vars, task_vars, sic_vars, emitted,
                   link_sessions, conn_id, budget_vars, hist_vars, sensor, tick>>
    /\ UNCHANGED aux_vars

\* the scenario START_FRAMES, INTERVAL:0.05, INTERVAL:100 as consecutive writes
TXT_0_05 == <<"0", ".", "0", "5">>
TXT_100  == <<"1", "0", "0">>

ScenarioStep(stage, value) ==
    IF value = CMD_START_FRAMES THEN 1
    ELSE IF stage = 1 /\ value = CMD_INTERVAL \o TXT_0_05 THEN 2
    ELSE IF stage = 2 /\ value = CMD_INTERVAL \o TXT_100 THEN 3
    ELSE 0

\* char command[256]
CommandBufSize == 256

\* ESP_GATTS_WRITE_EVT: a write that is not a prepare write and addresses the
\* control characteristic is copied into command[], terminated at its length
\* and interpreted. A write of CommandBufSize bytes or more is copied past the
\* end of the array: what the handler then interprets is either the text as
\* written or, its frame being overwritten, nothing
WriteEvt(handle, is_prep, value) ==
    /\ ble_device_connected
    /\ IF ~is_prep /\ handle = control_handle
       THEN /\ command_overrun' = (Len(value) + 1 > CommandBufSize)
            /\ IF command_overrun'
               THEN \E command \in {SubSeq(value, 1, Len(value)), <<>>} :
                        handle_control_command(command)
               ELSE LET command == SubSeq(value, 1, Len(value)) IN
                        handle_control_command(command)
       ELSE UNCHANGED <<config_vars, sensor, command_overrun>>
    /\ UNCHANGED <<handle_vars, task_vars, sic_vars, link_vars, budget_vars,
                   tick, audio_vars, codec_vars>>


(***************************************************************************)
(* The collaborators as the tasks see them.                                *)
(***************************************************************************)
\* the blob lengths the camera delivers
FrameLens == {0, 1, max_chunk_size + 1, MaxChunks * max_chunk_size}

\* fb->buf of a frame of len bytes: byte i (from 1) of every frame
FrameBuf(len) == [i \in 1..len |-> (i - 1) % 251]

\* mutant of LinkSend: every packet goes to the image characteristic
LinkSend_ToImage(handle, data, ret) ==
    /\ \/ ret = ESP_OK /\ UNCHANGED faults
       \/ ret = ESP_FAIL /\ faults < MaxFaults /\ faults' = faults + 1
    /\ emitted' = Append(emitted, [handle |-> image_handle, data |-> data,
                                   ret |-> ret])

\* esp_ble_gatts_send_indicate(gatts_if, conn_id, ...): the packet is handed
\* to the link on the connection the global conn_id names, and the link
\* answers ESP_OK or an error
LinkSend(handle, data, ret) ==
    /\ \/ ret = ESP_OK /\ UNCHANGED faults
       \/ ret = ESP_FAIL /\ faults < MaxFaults /\ faults' = faults + 1
    /\ emitted' = Append(emitted, [handle |-> handle, data |-> data, ret |-> ret])

\* n + 1 in a uint32_t counter, its width scaled down when the clock runs on
Inc32(n) == IF free_running THEN (n + 1) % CounterSpan ELSE n + 1

\* the tick count at which the clock of this behaviour stops
TickLimit == IF recording THEN MaxLoopTick ELSE MaxTick

\* vTaskDelay: the clock moves by the delay; it stops at TickLimit, or
\* wraps at ClockSpan like the unsigned TickType_t when it runs on
vTaskDelay(ticks) ==
    IF free_running
    THEN tick' = (tick + ticks) % ClockSpan
    ELSE /\ tick + ticks <= TickLimit
         /\ tick' = tick + ticks

\* (x >> n) & 0xFF, with shift = 2^n
Byte(x, shift) == (x \div shift) % 256

(***************************************************************************)
(* send_image_chunks                                                       *)
(***************************************************************************)
\* total_chunks = (image_len + max_chunk_size - 1) / max_chunk_size
TotalChunks(len) == (len + max_chunk_size - 1) \div max_chunk_size

\* mutant of StartHeader: the length is written most-significant byte first
StartHeader_BigEndianLen(chunks, len) ==
    <<1, Byte(chunks, 256), Byte(chunks, 1),
      Byte(len, 16777216), Byte(len, 65536), Byte(len, 256), Byte(len, 1)>>

\* [0x01][chunks_hi][chunks_lo][size_b0][size_b1][size_b2][size_b3]
StartHeader(chunks, len) ==
    <<1, Byte(chunks, 256), Byte(chunks, 1),
      Byte(len, 1), Byte(len, 256), Byte(len, 65536), Byte(len, 16777216)>>

\* mutant of ChunkOffset: the offset advances by the packet size
ChunkOffset_PacketStride(idx) == idx * (max_chunk_size + 3)

\* offset = chunk_idx * max_chunk_size
ChunkOffset(idx) == idx * max_chunk_size

\* chunk_size = (offset + max_chunk_size > image_len) ? image_len - offset
\*                                                     : max_chunk_size
ChunkSize(idx, len) ==
    IF ChunkOffset(idx) + max_chunk_size > len
    THEN len - ChunkOffset(idx)
    ELSE max_chunk_size

\* chunk_packet[0..2] = 0x02, (chunk_idx >> 8) & 0xFF, chunk_idx & 0xFF
ChunkMarker(idx) == <<2, Byte(idx, 256), Byte(idx, 1)>>

\* mutant of ChunkPacket: the index written is one-based
ChunkPacket_OneBased(idx, data, len) ==
    <<2, Byte(idx + 1, 256), Byte(idx + 1, 1)>>
        \o SubSeq(data, idx * max_chunk_size + 1,
                  Min(len, (idx + 1) * max_chunk_size))

\* [0x02][chunk_idx_hi][chunk_idx_lo][data...]: the first 3 + chunk_size
\* bytes of the scratch buffer
ChunkPacket(idx, data, len) ==
    ChunkMarker(idx)
        \o SubSeq(data, ChunkOffset(idx) + 1, ChunkOffset(idx) + ChunkSize(idx, len))

\* mutant of EndHeader: the count is written least-significant byte first
EndHeader_LittleEndian(chunks) == <<3, Byte(chunks, 1), Byte(chunks, 256)>>

\* [0x03][chunks_hi][chunks_lo]
EndHeader(chunks) == <<3, Byte(chunks, 256), Byte(chunks, 1)>>

\* mutant of AfterHeader: a failed start header does not end the transfer
AfterHeader_NoAbort(ret, chunks) == IF 0 < chunks THEN "sic_chunk" ELSE "sic_end"

\* where the function goes after the start header was handed to the link
AfterHeader(ret, chunks) ==
    IF ret # ESP_OK THEN "sic_return"
    ELSE IF 0 < chunks THEN "sic_chunk" ELSE "sic_end"

\* mutant of AfterChunk: the chunk loop leaves when frame streaming was
\* disabled
AfterChunk_StopAborts(ret, idx, chunks) ==
    IF ~frame_streaming_enabled THEN "sic_return"
    ELSE IF idx + 1 < chunks THEN "sic_chunk" ELSE "sic_end"

\* mutant of AfterChunk: a transfer is entered again from inside the chunk
\* loop
AfterChunk_Reenter(ret, idx, chunks) ==
    IF idx + 1 < chunks THEN "sic_entry" ELSE "sic_end"

\* where the loop goes after chunk idx was handed to the link
AfterChunk(ret, idx, chunks) ==
    IF idx + 1 < chunks THEN "sic_chunk" ELSE "sic_end"

\* mutant of SicNoOp: the length is not tested
SicNoOp_NoLenTest == ~ble_device_connected

\* the guard at the top: not connected, no data or no length
SicNoOp == ~ble_device_connected \/ image_len = 0

\* entry: the guard, total_chunks, the start header and the first delay
SicEntry ==
    /\ pc = "sic_entry"
    /\ IF SicNoOp THEN
            /\ emitted' = <<>>
            /\ sic_outcome' = "noop"
            /\ pc' = "sic_return"
            /\ UNCHANGED <<total_chunks, chunk_idx, successful_chunks,
                           faults, tick>>
       ELSE
            /\ total_chunks' = TotalChunks(image_len)
            /\ \E ret \in {ESP_OK, ESP_FAIL} :
                /\ \/ ret = ESP_OK /\ UNCHANGED faults
                   \/ ret = ESP_FAIL /\ faults < MaxFaults
                                     /\ faults' = faults + 1
                /\ emitted' = <<[handle |-> char_handle,
                                 data |-> StartHeader(total_chunks', image_len),
                                 ret |-> ret]>>
                /\ pc' = AfterHeader(ret, total_chunks')
                /\ sic_outcome' = IF ret # ESP_OK THEN "header_failed"
                                  ELSE "running"
                /\ IF ret = ESP_OK THEN vTaskDelay(pdMS_TO_TICKS(1))
                   ELSE UNCHANGED tick
            /\ successful_chunks' = 0
            /\ chunk_idx' = 0
    /\ UNCHANGED <<config_vars, handle_vars, current_time, last_frame_time,
                   frame_count, failed_frames, fb, image_len, char_handle,
                   is_frame, chunk_packet, negotiated_mtu, link_sessions,
                   conn_id, hist_vars, sensor>>
    \* history: the connection the start packet names
    /\ xfer_conn' = Record(IF SicNoOp THEN 0 ELSE conn_id, xfer_conn)
    /\ UNCHANGED <<rest_vars, recording, free_running, oneshot, stale_starts, capture_credit>>

\* one turn of the chunk loop whose scratch buffer cannot be allocated
SicChunkNoMem ==
    /\ pc = "sic_chunk"
    /\ faults < MaxFaults
    /\ faults' = faults + 1
    /\ sic_outcome' = "alloc_failed"
    /\ pc' = "sic_return"
    /\ UNCHANGED <<config_vars, handle_vars, current_time, last_frame_time,
                   frame_count, failed_frames, fb, image_len, char_handle,
                   is_frame, total_chunks, chunk_idx, successful_chunks,
                   chunk_packet, link_vars, hist_vars, sensor, tick>>
    /\ UNCHANGED aux_vars

\* one turn of the chunk loop, up to the return of the link send: allocate,
\* fill, send, count
SicChunk ==
    /\ pc = "sic_chunk"
    /\ chunk_packet' = "allocated"
    /\ \E ret \in {ESP_OK, ESP_FAIL} :
        /\ LinkSend(char_handle,
                    ChunkPacket(chunk_idx, FrameBuf(image_len), image_len), ret)
        /\ successful_chunks' = IF ret = ESP_OK THEN successful_chunks + 1
                                ELSE successful_chunks
    /\ pc' = "sic_free"
    /\ UNCHANGED <<config_vars, handle_vars, current_time, last_frame_time,
                   frame_count, failed_frames, fb, image_len, char_handle,
                   is_frame, total_chunks, chunk_idx, sic_outcome,
                   negotiated_mtu, link_sessions, conn_id, hist_vars, sensor,
                   tick>>
    /\ UNCHANGED aux_vars

\* mutant of FreeChunk: the buffer of a chunk whose send failed is kept
FreeChunk_OnSuccess(packet, ret) == IF ret = ESP_OK THEN NULL ELSE packet

\* free(chunk_packet), whatever the send returned
FreeChunk(packet, ret) == NULL

\* the rest of the turn: free, delay, next chunk
SicFree ==
    /\ pc = "sic_free"
    /\ LET ret == emitted[Len(emitted)].ret IN
        /\ chunk_packet' = FreeChunk(chunk_packet, ret)
        /\ pc' = AfterChunk(ret, chunk_idx, total_chunks)
    /\ chunk_idx' = chunk_idx + 1
    /\ vTaskDelay(pdMS_TO_TICKS(1))
    /\ UNCHANGED <<config_vars, handle_vars, current_time, last_frame_time,
                   frame_count, failed_frames, fb, image_len, char_handle,
                   is_frame, total_chunks, successful_chunks, sic_outcome,
                   link_vars, budget_vars, hist_vars, sensor>>
    /\ UNCHANGED aux_vars

\* the end marker, then the function returns
SicEnd ==
    /\ pc = "sic_end"
    /\ \E ret \in {ESP_OK, ESP_FAIL} :
        LinkSend(char_handle, EndHeader(total_chunks), ret)
    /\ sic_outcome' = "complete"
    /\ pc' = "sic_return"
    /\ UNCHANGED <<config_vars, handle_vars, current_time, last_frame_time,
                   frame_count, failed_frames, fb, image_len, char_handle,
                   is_frame, total_chunks, chunk_idx, successful_chunks,
                   chunk_packet, negotiated_mtu, link_sessions, conn_id, hist_vars, sensor,
                   tick>>
    /\ UNCHANGED aux_vars

(***************************************************************************)
(* streaming_task                                                          *)
(***************************************************************************)
\* mutant of FrameDue: a frame is due as soon as the clock has moved
FrameDue_AnyElapsed(now, anchor, interval) == now - anchor >= 1

\* current_time - last_frame_time >= pdMS_TO_TICKS((int)(frame_interval * 1000))
\* (an unsigned subtraction: when the clock runs on and wraps, the difference
\* is taken modulo its span)
FrameDue(now, anchor, interval) ==
    (IF free_running THEN (now - anchor) % ClockSpan ELSE now - anchor)
        >= pdMS_TO_TICKS(interval)

\* top of the loop: read the clock, decide whether a periodic frame is due
LoopTop ==
    /\ pc = "loop_top"
    /\ current_time' = tick
    /\ pc' = IF /\ frame_streaming_enabled /\ ble_device_connected
                /\ FrameDue(current_time', last_frame_time, frame_interval)
             THEN "frame_get" ELSE "capture_check"
    \* history: the iteration starts with or without a one-shot request on
    \* a connected link
    /\ oneshot' = Record(IF capture_image_requested /\ ble_device_connected
                         THEN "pending" ELSE "none", oneshot)
    /\ UNCHANGED <<config_vars, handle_vars, last_frame_time, frame_count,
                   failed_frames, fb, sic_vars, link_vars, budget_vars,
                   hist_vars, sensor, tick>>
    /\ UNCHANGED <<rest_vars, recording, free_running, stale_starts, capture_credit, xfer_conn>>

\* esp_camera_fb_get returns no frame
CameraMiss ==
    /\ \/ ~sensor.available /\ UNCHANGED faults
       \/ sensor.available /\ faults < MaxFaults /\ faults' = faults + 1

\* mutant of FrameGetFail: the anchor is left where it was
FrameGetFail_KeepAnchor ==
    /\ pc = "frame_get"
    /\ CameraMiss
    /\ failed_frames' = Inc32(failed_frames)
    /\ vTaskDelay(pdMS_TO_TICKS(20))
    /\ pc' = "loop_top"
    \* history: the iteration is over
    /\ oneshot' = "none"
    /\ UNCHANGED <<config_vars, handle_vars, current_time, last_frame_time,
                   frame_count, fb,
                   sic_vars, link_vars, hist_vars, sensor>>
    /\ UNCHANGED <<rest_vars, recording, free_running, stale_starts, capture_credit, xfer_conn>>

\* periodic path, no frame: count, move the anchor, back off, continue
FrameGetFail ==
    /\ pc = "frame_get"
    /\ CameraMiss
    /\ failed_frames' = Inc32(failed_frames)
    /\ last_frame_time' = current_time
    /\ vTaskDelay(pdMS_TO_TICKS(20))
    /\ pc' = "loop_top"
    \* history: the iteration is over
    /\ oneshot' = "none"
    /\ UNCHANGED <<config_vars, handle_vars, current_time, frame_count, fb,
                   sic_vars, link_vars, hist_vars, sensor>>
    /\ UNCHANGED <<rest_vars, recording, free_running, stale_starts, capture_credit, xfer_conn>>

\* periodic path, a frame: call send_image_chunks on the frame channel
FrameGet ==
    /\ pc = "frame_get"
    /\ sensor.available
    /\ \E len \in FrameLens :
        /\ fb' = len
        /\ image_len' = len
    /\ char_handle' = frame_handle
    /\ is_frame' = TRUE
    /\ pc' = "sic_entry"
    \* history: a periodic transfer starts with or without the flag set
    /\ stale_starts' = Record(IF frame_streaming_enabled THEN stale_starts
                              ELSE Min(stale_starts + 1, 2), stale_starts)
    /\ sensor' = [sensor EXCEPT !.frames_out = @ + 1]
    /\ UNCHANGED <<config_vars, handle_vars, current_time, last_frame_time,
                   frame_count, failed_frames, total_chunks, chunk_idx,
                   successful_chunks, sic_outcome, chunk_packet, link_vars,
                   budget_vars, hist_vars, tick>>
    /\ UNCHANGED <<rest_vars, recording, free_running, oneshot, capture_credit, xfer_conn>>

\* mutant of FbReturn: the frame of a transfer that did not run to its end
\* is kept
FbReturn_OnComplete(out, outcome) ==
    IF outcome = "complete" THEN out - 1 ELSE out

\* esp_camera_fb_return(fb), whatever send_image_chunks did: one frame less
\* is out of the driver
FbReturn(out, outcome) == out - 1

\* send_image_chunks has returned: its locals and the record of its packets
\* are gone, the frame is given back; the periodic path also moves the
\* anchor and counts the frame
SicReturn ==
    /\ pc = "sic_return"
    /\ fb' = NULL
    /\ image_len' = 0 /\ char_handle' = 0
    /\ total_chunks' = 0 /\ chunk_idx' = 0 /\ successful_chunks' = 0
    /\ sic_outcome' = "none"
    /\ emitted' = <<>>
    /\ UNCHANGED chunk_packet
    /\ IF is_frame
       THEN /\ last_frame_time' = current_time
            /\ frame_count' = Inc32(frame_count)
            /\ pc' = "capture_check"
       ELSE /\ UNCHANGED <<last_frame_time, frame_count>>
            /\ pc' = "sleep"
    /\ is_frame' = FALSE
    /\ sensor' = [sensor EXCEPT !.frames_out = FbReturn(@, sic_outcome)]
    /\ UNCHANGED <<config_vars, handle_vars, current_time, failed_frames,
                   negotiated_mtu, link_sessions, conn_id, budget_vars,
                   hist_vars, tick>>
    /\ xfer_conn' = 0
    /\ UNCHANGED <<rest_vars, recording, free_running, oneshot, stale_starts, capture_credit>>

\* mutant of CaptureCheck: the request is acquired without being cleared
CaptureCheck_NoClear ==
    /\ pc = "capture_check"
    /\ pc' = IF capture_image_requested /\ ble_device_connected
             THEN "single_get" ELSE "sleep"
    /\ UNCHANGED <<config_vars, handle_vars, current_time, last_frame_time,
                   frame_count, failed_frames, fb, sic_vars, link_vars,
                   budget_vars, hist_vars, sensor, tick>>
    /\ UNCHANGED aux_vars

\* the one-shot request: the test of the flag and of the link
CaptureCheck ==
    /\ pc = "capture_check"
    /\ pc' = IF capture_image_requested /\ ble_device_connected
             THEN "capture_clear" ELSE "sleep"
    /\ UNCHANGED <<config_vars, handle_vars, current_time, last_frame_time,
                   frame_count, failed_frames, fb, sic_vars, link_vars,
                   budget_vars, hist_vars, sensor, tick>>
    /\ UNCHANGED aux_vars

\* the one-shot request: capture_image_requested = false, a store of its
\* own after the test, so that a CAPTURE command can come between the two
CaptureClear ==
    /\ pc = "capture_clear"
    /\ capture_image_requested' = FALSE
    /\ pc' = "single_get"
    \* history: the request of this iteration is taken
    /\ oneshot' = IF oneshot = "pending" THEN "served" ELSE oneshot
    /\ UNCHANGED <<ble_device_connected, frame_streaming_enabled,
                   audio_streaming_enabled, frame_interval, image_quality,
                   current_frame_size, handle_vars, current_time,
                   last_frame_time, frame_count, failed_frames, fb, sic_vars,
                   link_vars, budget_vars, hist_vars, sensor, tick>>
    /\ UNCHANGED <<rest_vars, recording, free_running, stale_starts, capture_credit, xfer_conn>>

\* one-shot path, no frame: nothing is sent
SingleGetFail ==
    /\ pc = "single_get"
    /\ CameraMiss
    /\ pc' = "sleep"
    /\ UNCHANGED <<config_vars, handle_vars, current_time, last_frame_time,
                   frame_count, failed_frames, fb, sic_vars, link_vars,
                   hist_vars, sensor, tick>>
    /\ UNCHANGED aux_vars

\* one-shot path, a frame: call send_image_chunks on the image channel
SingleGet ==
    /\ pc = "single_get"
    /\ sensor.available
    /\ \E len \in FrameLens :
        /\ fb' = len
        /\ image_len' = len
    /\ char_handle' = image_handle
    /\ is_frame' = FALSE
    /\ pc' = "sic_entry"
    \* history: one capture is served
    /\ capture_credit' = Record(capture_credit - 1, capture_credit)
    /\ sensor' = [sensor EXCEPT !.frames_out = @ + 1]
    /\ UNCHANGED <<config_vars, handle_vars, current_time, last_frame_time,
                   frame_count, failed_frames, total_chunks, chunk_idx,
                   successful_chunks, sic_outcome, chunk_packet, link_vars,
                   budget_vars, hist_vars, tick>>
    /\ UNCHANGED <<rest_vars, recording, free_running, oneshot, stale_starts, xfer_conn>>

\* the delay that ends an iteration
Sleep ==
    /\ pc = "sleep"
    /\ vTaskDelay(pdMS_TO_TICKS(10))
    /\ pc' = "loop_top"
    \* history: the iteration is over
    /\ oneshot' = "none"
    /\ UNCHANGED <<config_vars, handle_vars, current_time, last_frame_time,
                   frame_count, failed_frames, fb, sic_vars, link_vars,
                   budget_vars, hist_vars, sensor>>
    /\ UNCHANGED <<rest_vars, recording, free_running, stale_starts, capture_credit, xfer_conn>>

StreamingTask ==
    \/ LoopTop \/ FrameGetFail \/ FrameGet \/ SicEntry \/ SicChunkNoMem
    \/ SicChunk \/ SicFree \/ SicEnd \/ SicReturn \/ CaptureCheck
    \/ CaptureClear \/ SingleGetFail \/ SingleGet \/ Sleep

(***************************************************************************)
(* send_audio_data and audio_task                                          *)
(***************************************************************************)
\* the sample values the microphone delivers
AudioSamples == {0 - 32768, 0, 40, 101, 32767}

\* the windows i2s_read delivers: 1 to MaxWindow samples
AudioWindows == UNION {[1..n -> AudioSamples] : n \in 1..MaxWindow}

INT32_MAX == 2147483647

\* rms_sum after the samples from i on are added to acc; -1 when an addition
\* passes INT32_MAX
RECURSIVE RmsSum(_, _, _)
RmsSum(w, i, acc) ==
    IF i > Len(w) THEN acc
    ELSE IF acc > INT32_MAX - w[i] * w[i] THEN 0 - 1
    ELSE RmsSum(w, i + 1, acc + w[i] * w[i])

\* the integer part of sqrt(q): the largest r of lo..hi with r * r <= q
RECURSIVE Isqrt(_, _, _)
Isqrt(q, lo, hi) ==
    IF lo >= hi THEN lo
    ELSE LET mid == (lo + hi + 1) \div 2 IN
         IF mid * mid <= q THEN Isqrt(q, mid, hi) ELSE Isqrt(q, lo, mid - 1)

\* what an int16_t may hold after an overflowing sum or after a conversion
\* of a value it cannot represent
UndefinedLevels == {0 - 32768, 0, 32767}

\* int16_t rms_level = sqrt(rms_sum / samples_read): the values it may take
RmsLevels(w) ==
    LET sum == RmsSum(w, 1, 0) IN
    IF sum < 0 THEN UndefinedLevels
    ELSE LET r == Isqrt(sum \div Len(w), 0, 46340) IN
         IF r <= 32767 THEN {r} ELSE UndefinedLevels

\* a / b as C divides: towards zero
CDiv(a, b) == IF a >= 0 THEN a \div b ELSE 0 - ((0 - a) \div b)

\* mutant of AdaptThreshold: the threshold follows half the level
AdaptThreshold_Half(rms, threshold) ==
    IF rms > threshold * 2 THEN CDiv(rms, 2) ELSE threshold

\* if (rms_level > adaptive_threshold * 2) adaptive_threshold = rms_level / 4
AdaptThreshold(rms, threshold) ==
    IF rms > threshold * 2 THEN CDiv(rms, 4) ELSE threshold

\* mutant of IsSilent: the gate compares with the initial threshold
IsSilent_FixedThreshold(rms, threshold) == rms < 50

\* if (rms_level < adaptive_threshold) return
IsSilent(rms, threshold) == rms < threshold

\* int16_t filtered = sample - ((prev_sample * 15) >> 4)
Filtered(sample, prev) == ToInt16(sample - ((prev * 15) \div 16))

\* mutant of EncodeWindow: the filter starts every window from 0
EncodeWindow_ResetPrev(w, prev) ==
    [i \in 1..Len(w) |->
        linear_to_mulaw(Filtered(w[i], IF i = 1 THEN 0 ELSE w[i - 1]))]

\* the encoding loop: mulaw_buffer after sample i is filtered against the
\* raw sample before it, prev_sample for the first
EncodeWindow(w, prev) ==
    [i \in 1..Len(w) |->
        linear_to_mulaw(Filtered(w[i], IF i = 1 THEN prev ELSE w[i - 1]))]

\* the test at the head of send_audio_data
AudioReady ==
    /\ ble_device_connected
    /\ mic.audio_initialized
    /\ mic.audio_buffer # NULL /\ mic.mulaw_buffer # NULL
    /\ mic.i2s_driver_installed

\* what send_audio_data leaves alone
audio_frame == <<config_vars, handle_vars, task_vars, sic_vars, link_vars,
                 hist_vars, loop_hist, sensor, tick, codec_vars, command_overrun, mic,
                 audio_time, last_audio_time>>

\* send_audio_data returns at its head
SendAudioNotReady ==
    /\ audio_pc = "send_audio"
    /\ ~AudioReady
    /\ audio_pc' = "audio_return"
    /\ UNCHANGED <<audio_frame, budget_vars, adaptive_threshold, prev_sample,
                   audio_window, rms_level, audio_out, raw_hist>>

\* i2s_read fails or reads nothing
SendAudioNoData ==
    /\ audio_pc = "send_audio"
    /\ AudioReady
    /\ faults < MaxFaults /\ faults' = faults + 1
    /\ audio_pc' = "audio_return"
    /\ UNCHANGED <<audio_frame, adaptive_threshold, prev_sample,
                   audio_window, rms_level, audio_out, raw_hist>>

\* i2s_read delivers a window, one of windows: the level, the gate, the
\* encoding, the send
SendAudioWindowOf(windows) ==
    /\ audio_pc = "send_audio"
    /\ AudioReady
    /\ \E w \in windows : \E rms \in RmsLevels(w) :
        /\ audio_window' = w
        /\ rms_level' = rms
        /\ adaptive_threshold' = AdaptThreshold(rms, adaptive_threshold)
        /\ IF IsSilent(rms, adaptive_threshold')
           THEN /\ audio_out' = <<>>
                /\ UNCHANGED <<prev_sample, raw_hist, faults>>
           ELSE /\ prev_sample' = w[Len(w)]
                /\ raw_hist' = w[Len(w)]
                /\ \E ret \in {ESP_OK, ESP_FAIL} :
                    /\ \/ ret = ESP_OK /\ UNCHANGED faults
                       \/ ret = ESP_FAIL /\ faults < MaxFaults
                                         /\ faults' = faults + 1
                    /\ audio_out' = <<[handle |-> audio_handle,
                                       data |-> EncodeWindow(w, prev_sample),
                                       ret |-> ret]>>
    /\ audio_pc' = "audio_return"
    /\ UNCHANGED audio_frame

SendAudioWindow == SendAudioWindowOf(AudioWindows)

\* const TickType_t audio_interval = pdMS_TO_TICKS(100)
audio_interval == pdMS_TO_TICKS(100)

\* top of the loop of audio_task: read the clock, decide whether a window is
\* due
AudioLoopTop ==
    /\ audio_pc = "audio_top"
    /\ audio_time' = tick
    /\ audio_pc' = IF /\ audio_streaming_enabled /\ ble_device_connected
                      /\ mic.audio_initialized
                      /\ audio_time' - last_audio_time >= audio_interval
                   THEN "send_audio" ELSE "audio_sleep"
    /\ UNCHANGED <<config_vars, handle_vars, task_vars, sic_vars, link_vars,
                   budget_vars, hist_vars, loop_hist, sensor, tick, codec_vars,
                   command_overrun, mic, last_audio_time, adaptive_threshold,
                   prev_sample, audio_window, rms_level, audio_out, raw_hist>>

\* send_audio_data has returned: last_audio_time = current_time
AudioReturn ==
    /\ audio_pc = "audio_return"
    /\ last_audio_time' = audio_time
    /\ audio_window' = <<>> /\ rms_level' = 0 /\ audio_out' = <<>>
    /\ audio_pc' = "audio_sleep"
    /\ UNCHANGED <<config_vars, handle_vars, task_vars, sic_vars, link_vars,
                   budget_vars, hist_vars, loop_hist, sensor, tick, codec_vars,
                   command_overrun, mic, audio_time, adaptive_threshold,
                   prev_sample, raw_hist>>

\* vTaskDelay(pdMS_TO_TICKS(25)); the clock stops at MaxAudioTick
AudioSleep ==
    /\ audio_pc = "audio_sleep"
    /\ tick + pdMS_TO_TICKS(25) <= MaxAudioTick
    /\ tick' = tick + pdMS_TO_TICKS(25)
    /\ audio_pc' = "audio_top"
    /\ UNCHANGED <<config_vars, handle_vars, task_vars, sic_vars, link_vars,
                   budget_vars, hist_vars, loop_hist, sensor, codec_vars,
                   command_overrun, mic, audio_time, last_audio_time,
                   adaptive_threshold, prev_sample, audio_window, rms_level,
                   audio_out, raw_hist>>

AudioTask ==
    \/ AudioLoopTop \/ SendAudioNotReady \/ SendAudioNoData
    \/ SendAudioWindow \/ AudioReturn \/ AudioSleep

(***************************************************************************)
(* Specifications.                                                         *)
(***************************************************************************)
\* the commands that drive the streaming task
StreamWrites == {CMD_CAPTURE, CMD_START_FRAMES, CMD_STOP_FRAMES}

\* the write events of a set of command texts: each text written to the
\* control characteristic, and one prepare write and one descriptor write
WriteEvents(values) ==
    {<<AttrHandle(1), FALSE, v>> : v \in values}
        \cup {<<AttrHandle(1), TRUE, CMD_CAPTURE>>,
              <<AttrHandle(2) + 1, FALSE, <<"1", "0">> >>}

\* history of a write: a CAPTURE that is interpreted is one more request, a
\* START_FRAMES that is interpreted sets the flag again
WriteHistory(handle, is_prep, value) ==
    LET interpreted == ~is_prep /\ handle = control_handle IN
        /\ capture_credit' =
              Record(IF interpreted /\ value = CMD_CAPTURE
                     THEN Min(capture_credit + 1, MaxCredit)
                     ELSE capture_credit, capture_credit)
        /\ stale_starts' =
              Record(IF interpreted /\ value = CMD_START_FRAMES
                     THEN 0 ELSE stale_starts, stale_starts)
        /\ UNCHANGED <<recording, free_running, oneshot, xfer_conn>>

StreamWriteEvt ==
    \E w \in WriteEvents(StreamWrites) :
        /\ WriteEvt(w[1], w[2], w[3])
        /\ WriteHistory(w[1], w[2], w[3])
        /\ UNCHANGED hist_vars

Next ==
    \/ AddCharEvt
    \/ ConnectEvt
    \/ DisconnectEvt
    \/ StreamWriteEvt
    \/ StreamingTask

Spec == Init /\ [][Next]_vars


\* Spec with the MTU negotiation of the link
NextMtu == Next \/ \E mtu \in MtuValues : MtuEvt(mtu)

SpecMtu == Init /\ [][NextMtu]_vars

\* the camera delivers periodic frames of two chunks
FrameGetTwoChunks == FrameGet /\ image_len' = max_chunk_size + 1

\* the camera delivers one-shot images of one byte
SingleGetOneByte == SingleGet /\ image_len' = 1

NextLoop ==
    \/ AddCharEvt
    \/ ConnectEvt
    \/ DisconnectEvt
    \/ StreamWriteEvt
    \/ LoopTop \/ FrameGetFail \/ FrameGetTwoChunks \/ SicEntry
    \/ SicChunkNoMem \/ SicChunk \/ SicFree \/ SicEnd \/ SicReturn
    \/ CaptureCheck \/ CaptureClear \/ SingleGetFail \/ SingleGetOneByte
    \/ Sleep

\* Spec with the history of the streaming loop, the camera delivering
\* blobs of two lengths
SpecLoop == InitLoop /\ [][NextLoop]_vars

\* the state when app_main has created the tasks, the clock running on
InitLive ==
    /\ InitCore
    /\ mic = MicInit("ok")
    /\ recording = FALSE /\ free_running = TRUE

\* esp_camera_fb_get blocks: a tick passes before it returns
FbGetBlocks ==
    /\ pc = "frame_get"
    /\ free_running
    /\ vTaskDelay(1)
    /\ UNCHANGED <<config_vars, handle_vars, task_vars, sic_vars, link_vars,
                   budget_vars, hist_vars, sensor>>
    /\ UNCHANGED aux_vars

\* the steps of streaming_task
LoopStep ==
    \/ LoopTop \/ FrameGetFail \/ FrameGetTwoChunks \/ SicEntry
    \/ SicChunkNoMem \/ SicChunk \/ SicFree \/ SicEnd \/ SicReturn
    \/ CaptureCheck \/ CaptureClear \/ SingleGetFail \/ SingleGetOneByte
    \/ Sleep

NextLive ==
    \/ AddCharEvt
    \/ ConnectEvt
    \/ StreamWriteEvt
    \/ FbGetBlocks
    \/ LoopTop \/ FrameGetFail \/ FrameGetTwoChunks \/ SicEntry
    \/ SicChunkNoMem \/ SicChunk \/ SicFree \/ SicEnd \/ SicReturn
    \/ CaptureCheck \/ CaptureClear \/ SingleGetFail \/ SingleGetOneByte
    \/ Sleep

\* the registration of the characteristics with every status the stack may
\* report and events beyond the fifth, followed by the link events, the
\* commands and the loop without a camera
NextReg ==
    \/ AddCharEvt
    \/ AddCharFailEvt
    \/ AddCharLateEvt
    \/ ConnectEvt
    \/ DisconnectEvt
    \/ StreamWriteEvt
    \/ LoopTop \/ FrameGetFail \/ CaptureCheck \/ CaptureClear
    \/ SingleGetFail \/ Sleep

SpecReg == Init /\ [][NextReg]_vars

\* the streaming loop on a link that stays connected once it is up, the
\* clock running on, the task scheduled fairly: a step of the loop that
\* stays possible is taken
SpecLive == InitLive /\ [][NextLive]_vars /\ WF_pc(LoopStep)

\* arguments of INTERVAL: as texts, each with the number it denotes in
\* thousandths
IntervalArgs ==
    { [text |-> TXT_0_05, val |-> 50],
      [text |-> TXT_100, val |-> 100000],
      [text |-> <<"0", ".", "1">>, val |-> 100],
      [text |-> <<"0", ".", "0", "9", "9">>, val |-> 99],
      [text |-> <<"1", ".", "5">>, val |-> 1500],
      [text |-> <<"6", "0">>, val |-> 60000],
      [text |-> <<"6", "0", ".", "0", "0", "1">>, val |-> 60001],
      [text |-> <<"-", "3">>, val |-> 0 - 3000],
      [text |-> <<" ", "+", "2", ".", "2", "5">>, val |-> 2250] }

\* arguments of QUALITY: as texts, each with the integer it denotes
QualityArgs ==
    { [text |-> <<"3">>, val |-> 3],
      [text |-> <<"4">>, val |-> 4],
      [text |-> <<"1", "0">>, val |-> 10],
      [text |-> <<"6", "3">>, val |-> 63],
      [text |-> <<"6", "4">>, val |-> 64],
      [text |-> <<"-", "1">>, val |-> 0 - 1],
      [text |-> <<"1", "0", "0", "0">>, val |-> 1000] }

\* arguments of SIZE: as texts, each with the integer it denotes
SizeArgs ==
    { [text |-> <<"0">>, val |-> 0],
      [text |-> <<"5">>, val |-> 5],
      [text |-> <<"1", "3">>, val |-> 13],
      [text |-> <<"1", "4">>, val |-> 14],
      [text |-> <<"2", "0">>, val |-> 20],
      [text |-> <<"-", "1">>, val |-> 0 - 1] }

\* arguments that are no number
MalformedArgs == { <<"a", "b", "c">>, <<>> }

\* texts that are no command
UnknownTexts == { <<"H", "E", "L", "L", "O">>, <<>>, <<"S", "T", "A", "T">>,
                  CMD_CAPTURE \o <<" ">> }

\* the longest value of one write: the local MTU less the 3-byte header of
\* the write request
MaxWriteLen == LocalMtu - 3

\* a value of n bytes that is no command
Filler(n) == [i \in 1..n |-> "A"]

\* writes as long as the command buffer allows, one byte longer, and as long
\* as the link delivers
LongWrites == {Filler(CommandBufSize - 1), Filler(CommandBufSize),
               Filler(MaxWriteLen)}

\* the texts a peer writes to the control characteristic
ControlWrites ==
    {CMD_CAPTURE, CMD_START_FRAMES, CMD_STOP_FRAMES, CMD_START_AUDIO,
     CMD_STOP_AUDIO, CMD_STATUS, <<"H", "E", "L", "L", "O">>}
        \cup {CMD_INTERVAL \o a.text : a \in IntervalArgs}
        \cup {CMD_QUALITY \o a.text : a \in QualityArgs}

\* the texts that select a frame size, that are malformed, unknown or long,
\* and a few well-formed ones that move the configuration
ArgWrites ==
    {CMD_CAPTURE, CMD_START_FRAMES, CMD_START_AUDIO,
     CMD_INTERVAL \o <<"1", ".", "5">>, CMD_QUALITY \o <<"1", "0">>}
        \cup UnknownTexts
        \cup {CMD_SIZE \o a.text : a \in SizeArgs}
        \cup {c \o a : c \in {CMD_INTERVAL, CMD_QUALITY, CMD_SIZE},
                        a \in MalformedArgs}
        \cup LongWrites

\* a control write, remembered when it is interpreted as a command
ControlWriteOf(values) ==
    \E w \in WriteEvents(values) :
        /\ WriteEvt(w[1], w[2], w[3])
        /\ IF ~w[2] /\ w[1] = control_handle
           THEN /\ last_write' = w[3]
                /\ scenario' = ScenarioStep(scenario, w[3])
                /\ write_seq' = 1 - write_seq
           ELSE UNCHANGED hist_vars
        /\ UNCHANGED loop_hist

ControlWriteEvt == ControlWriteOf(ControlWrites)

ArgWriteEvt == ControlWriteOf(ArgWrites)

NextCmd ==
    \/ AddCharEvt
    \/ ConnectEvt
    \/ DisconnectEvt
    \/ ControlWriteEvt

\* the control path alone: the link events and every command text
SpecCmd == Init /\ [][NextCmd]_vars

NextArg ==
    \/ AddCharEvt
    \/ ConnectEvt
    \/ DisconnectEvt
    \/ ArgWriteEvt

\* the control path with the frame sizes and the texts that are no command
SpecArg == Init /\ [][NextArg]_vars

\* the commands that drive the audio task
AudioWrites == {CMD_START_AUDIO, CMD_STOP_AUDIO}

AudioWriteEvt ==
    \E w \in WriteEvents(AudioWrites) :
        /\ WriteEvt(w[1], w[2], w[3])
        /\ UNCHANGED <<hist_vars, loop_hist>>

NextAudio ==
    \/ AddCharEvt
    \/ ConnectEvt
    \/ DisconnectEvt
    \/ AudioWriteEvt
    \/ AudioTask

\* the audio path: the link events, the audio commands and audio_task
SpecAudio == InitAudio /\ [][NextAudio]_vars

\* the commands that start each producer
ChanWrites == {CMD_CAPTURE, CMD_START_FRAMES, CMD_START_AUDIO}

ChanWriteEvt ==
    \E v \in ChanWrites :
        /\ WriteEvt(AttrHandle(1), FALSE, v)
        /\ UNCHANGED <<hist_vars, loop_hist>>

\* the microphone delivers one loud sample; the link takes the packet
ChanSendAudioWindow == SendAudioWindowOf({<<101>>}) /\ UNCHANGED faults

\* the link takes every packet of a transfer
ChanSicEntry == SicEntry /\ UNCHANGED faults
ChanSicChunk == SicChunk /\ UNCHANGED faults
ChanSicEnd == SicEnd /\ UNCHANGED faults

NextChan ==
    \/ AddCharEvt
    \/ ConnectEvt
    \/ ChanWriteEvt
    \/ LoopTop \/ FrameGetTwoChunks \/ ChanSicEntry \/ ChanSicChunk \/ SicFree
    \/ ChanSicEnd \/ SicReturn \/ CaptureCheck \/ CaptureClear
    \/ SingleGetOneByte \/ Sleep
    \/ AudioLoopTop \/ ChanSendAudioWindow \/ AudioReturn \/ AudioSleep

\* streaming_task and audio_task side by side on one connection, each
\* producer started and never stopped, the camera, the microphone and the
\* link answering no failure
SpecChan == Init /\ [][NextChan]_vars

(***************************************************************************)
(* Properties.                                                             *)
(***************************************************************************)
CeilDiv(a, b) == IF a % b = 0 THEN a \div b ELSE a \div b + 1

Marker(p) == p.data[1]
Payload(p) == SubSeq(p.data, 4, Len(p.data))
\* the 16-bit field in bytes 2 and 3, most significant byte first
Field16(p) == p.data[2] * 256 + p.data[3]
IsBytes(d) == \A i \in 1..Len(d) : d[i] \in 0..255

DataPackets == SelectSeq(emitted, LAMBDA p : Marker(p) = 2)

RECURSIVE Concat(_)
Concat(ps) == IF ps = <<>> THEN <<>> ELSE Payload(Head(ps)) \o Concat(Tail(ps))

AllSendsOk == \A k \in 1..Len(emitted) : emitted[k].ret = ESP_OK

\* the call has returned and was not a no-op
Returned == pc = "sic_return" /\ sic_outcome # "noop"

\* the data packets carry the blob in max_chunk_size pieces
Reassembles ==
    LET d == DataPackets
        n == CeilDiv(image_len, max_chunk_size)
    IN  /\ Len(d) = n
        /\ Len(emitted) >= 1 /\ Field16(emitted[1]) = n
        /\ Concat(d) = FrameBuf(image_len)
        /\ \A k \in 1..n :
              Len(Payload(d[k])) =
                  IF k < n THEN max_chunk_size
                  ELSE image_len - (n - 1) * max_chunk_size

\* C1 as stated: a non-empty blob sent while connected, every link send
\* succeeding, is carried whole and in order by the data packets, in
\* ceil(len / max_chunk_payload) packets, all full but the last
C1_Original == (Returned /\ AllSendsOk) => Reassembles

\* C1 amended: the same, for a transfer in which every link send succeeds
\* and no scratch-buffer allocation fails
C1_Amended ==
    (Returned /\ AllSendsOk /\ sic_outcome # "alloc_failed") => Reassembles

C1_Witness ==
    /\ Returned /\ AllSendsOk /\ sic_outcome = "complete"
    /\ image_len = MaxChunks * max_chunk_size
    /\ Len(DataPackets) = MaxChunks

\* C2: a transfer begins with exactly one start packet of 7 bytes, 0x01,
\* the chunk count most significant byte first, the total length least
\* significant byte first, and it precedes every data packet
C2_StartPacket ==
    /\ (pc \in {"sic_chunk", "sic_free", "sic_end"} \/ Returned)
          => Len(emitted) >= 1
    /\ Len(emitted) >= 1 =>
          LET h == emitted[1].data IN
              /\ Len(h) = 7 /\ IsBytes(h)
              /\ h[1] = 1
              /\ h[2] * 256 + h[3] = CeilDiv(image_len, max_chunk_size)
              /\ h[4] = image_len % 256
              /\ h[5] = (image_len \div 256) % 256
              /\ h[6] = (image_len \div 65536) % 256
              /\ h[7] = image_len \div 16777216
    /\ \A k \in 2..Len(emitted) : Marker(emitted[k]) # 1

C2_Witness ==
    /\ pc = "sic_chunk" /\ chunk_idx = 0 /\ Len(emitted) = 1
    /\ image_len = max_chunk_size + 1

\* the log ends with the one end packet, after the data packets, declaring
\* the chunk count of the start packet
EndsWithEnd ==
    LET n == Len(emitted)
        e == emitted[n].data
    IN  /\ n >= 2
        /\ Len(e) = 3 /\ IsBytes(e) /\ e[1] = 3
        /\ e[2] = emitted[1].data[2] /\ e[3] = emitted[1].data[3]
        /\ Field16(emitted[n]) = CeilDiv(image_len, max_chunk_size)
        /\ \A k \in 2..(n - 1) : Marker(emitted[k]) = 2

NoEndPacket == \A k \in 1..Len(emitted) : Marker(emitted[k]) # 3

StartSent == Len(emitted) >= 1 /\ emitted[1].ret = ESP_OK

\* C3 as stated: every transfer whose start packet was sent ends with exactly
\* one end packet [0x03][chunk_count], after all its data packets, with the
\* chunk count of the start packet
C3_Original == (Returned /\ StartSent) => EndsWithEnd

\* C3 amended: so does every transfer whose start packet was sent and in
\* which no scratch-buffer allocation fails; a transfer that a failed
\* allocation aborts sends no end packet; no end packet precedes the return
C3_Amended ==
    /\ (Returned /\ StartSent /\ sic_outcome # "alloc_failed") => EndsWithEnd
    /\ (Returned /\ sic_outcome = "alloc_failed") => NoEndPacket
    /\ pc \in {"sic_entry", "sic_chunk", "sic_free", "sic_end"} => NoEndPacket

C3_Witness ==
    /\ Returned /\ StartSent /\ sic_outcome = "complete"
    /\ total_chunks = MaxChunks /\ Len(emitted) = MaxChunks + 2

\* every packet of the transfer was handed to the link once, in order
AllAttempted ==
    /\ Len(emitted) = total_chunks + 2
    /\ Marker(emitted[1]) = 1
    /\ \A k \in 1..total_chunks :
          Marker(emitted[k + 1]) = 2 /\ Field16(emitted[k + 1]) = k - 1
    /\ Marker(emitted[total_chunks + 2]) = 3

C5_Original ==
    [][Len(emitted') > Len(emitted) => ble_device_connected]_vars

\* C6: called with an empty blob or while not connected, send_image_chunks
\* returns at once and emits no packet
C6_NoOp ==
    /\ [](pc = "sic_entry" => emitted = <<>>)
    /\ [][(pc = "sic_entry" /\ pc' # pc
                /\ (image_len = 0 \/ ~ble_device_connected))
            => (emitted' = <<>> /\ pc' = "sic_return")]_vars

C6_Witness ==
    /\ pc = "sic_return" /\ sic_outcome = "noop" /\ emitted = <<>>
    /\ image_len > 0 /\ ~ble_device_connected

\* C7 as stated, P being the MTU the link negotiated: every full data
\* packet carries P - 3 payload bytes and no packet is longer than P
C7_Original ==
    negotiated_mtu # 0 =>
        \A k \in 1..Len(emitted) :
            /\ Len(emitted[k].data) <= negotiated_mtu
            /\ (Marker(emitted[k]) = 2 /\ k < total_chunks + 1)
                  => Len(Payload(emitted[k])) = negotiated_mtu - 3

\* C8: the data packets are emitted one after the other with the indices
\* 0, 1, ..., each after the send of the one before has returned its
\* result, and chunk_count of them when the transfer completes
C8_Sequential ==
    /\ \A k \in 2..Len(emitted) :
          Marker(emitted[k]) = 2 =>
              /\ Field16(emitted[k]) = k - 2
              /\ Marker(emitted[k - 1]) = IF k = 2 THEN 1 ELSE 2
              /\ emitted[k - 1].ret \in {ESP_OK, ESP_FAIL}
    /\ pc = "sic_chunk" => Len(emitted) = chunk_idx + 1
    /\ (Returned /\ sic_outcome = "complete") =>
          Len(DataPackets) = CeilDiv(image_len, max_chunk_size)

C8_Witness ==
    /\ Returned /\ sic_outcome = "complete"
    /\ Len(DataPackets) = MaxChunks
    /\ Field16(emitted[MaxChunks + 1]) = MaxChunks - 1

\* C9 as stated: in every reachable state, the initial one included,
\* frame_interval is in [0.1, 60.0] and image_quality in [4, 63]
C9_Original ==
    /\ 100 <= frame_interval /\ frame_interval <= 60000
    /\ 4 <= image_quality /\ image_quality <= 63

\* x clamped into [lo, hi]
Clamped(x, lo, hi) == IF x < lo THEN lo ELSE IF x > hi THEN hi ELSE x

\* C10: after INTERVAL:x the interval is x clamped into [0.1, 60.0]; after
\* QUALITY:x the quality is x clamped into [4, 63] and is the value the
\* sensor was given; START_FRAMES, INTERVAL:0.05, INTERVAL:100 ends at 60.0
C10_Clamp ==
    /\ \A a \in IntervalArgs :
          last_write = CMD_INTERVAL \o a.text
              => frame_interval = Clamped(a.val, 100, 60000)
    /\ \A a \in QualityArgs :
          last_write = CMD_QUALITY \o a.text
              => /\ image_quality = Clamped(a.val, 4, 63)
                 /\ sensor.available => sensor.quality = image_quality
    /\ scenario = 3 => frame_interval = 60000

C10_Witness ==
    /\ scenario = 3 /\ frame_streaming_enabled /\ frame_interval = 60000
    /\ last_write = CMD_INTERVAL \o TXT_100

\* a step that interprets the control write v
Interprets(v) == write_seq' # write_seq /\ last_write' = v

\* the 14 frame sizes are distinct and ascend in pixel count
SizesAscend ==
    /\ Len(FrameSizes) = 14 /\ Len(FrameDims) = 14
    /\ \A i, j \in 1..14 : i < j =>
          /\ FrameSizes[i] # FrameSizes[j]
          /\ FrameDims[i][1] * FrameDims[i][2] < FrameDims[j][1] * FrameDims[j][2]

\* C11 as stated: SIZE:n with n in 0..13 stores the n-th of the 14 frame
\* sizes, which ascend, as the current frame size; SIZE:n with n outside
\* 0..13 leaves the current frame size unchanged
C11_Original ==
    [][\A a \in SizeArgs :
          Interprets(CMD_SIZE \o a.text) =>
              IF a.val \in 0..13
              THEN current_frame_size' = FrameSizes[a.val + 1]
              ELSE current_frame_size' = current_frame_size]_vars

\* C11 amended: SIZE:n with n in 0..13 selects the n-th of the 14 frame
\* sizes, which ascend, and stores it as the current frame size when the
\* sensor exists and accepts it; when there is no sensor or it refuses, and
\* for n outside 0..13, the current frame size is unchanged
C11_Amended ==
    /\ []SizesAscend
    /\ [][\A a \in SizeArgs :
            Interprets(CMD_SIZE \o a.text) =>
                IF /\ a.val \in 0..13
                   /\ sensor.available
                   /\ sensor'.last_res = ESP_OK
                THEN /\ current_frame_size' = FrameSizes[a.val + 1]
                     /\ sensor'.framesize = FrameSizes[a.val + 1]
                ELSE /\ current_frame_size' = current_frame_size
                     /\ sensor'.framesize = sensor.framesize]_vars

C11_Witness ==
    /\ last_write = CMD_SIZE \o <<"1", "3">>
    /\ current_frame_size = "FRAMESIZE_UXGA"
    /\ sensor.framesize = "FRAMESIZE_UXGA"

\* the texts that are no command or carry a malformed argument
BadTexts ==
    UnknownTexts
        \cup {c \o a : c \in {CMD_INTERVAL, CMD_QUALITY, CMD_SIZE},
                       a \in MalformedArgs}

\* C12 as stated: a text that is no recognized command, or a recognized
\* prefix with a malformed argument, leaves every StreamConfig field
\* unchanged
C12_Original ==
    [][\A v \in BadTexts :
          Interprets(v) =>
              UNCHANGED <<frame_interval, image_quality, current_frame_size,
                          frame_streaming_enabled, audio_streaming_enabled,
                          capture_image_requested>>]_vars

\* C13 as stated: for every length the link can deliver, the write handler
\* never reads or writes outside its 256-byte command buffer
C13_Original == ~command_overrun

\* the fields of StreamConfig and of ConnectionState other than the three
\* flags
NonFlagFields == <<frame_interval, image_quality, current_frame_size,
                   ble_device_connected, conn_id, link_sessions>>

\* C14: CAPTURE sets capture_image_requested, START_FRAMES and STOP_FRAMES
\* set and clear frame_streaming_enabled, START_AUDIO and STOP_AUDIO set and
\* clear audio_streaming_enabled, and each changes no other field of
\* StreamConfig and none of ConnectionState
C14_Flags ==
    [][/\ Interprets(CMD_CAPTURE) =>
            /\ capture_image_requested'
            /\ UNCHANGED <<frame_streaming_enabled, audio_streaming_enabled,
                           NonFlagFields>>
       /\ \A b \in BOOLEAN :
            Interprets(IF b THEN CMD_START_FRAMES ELSE CMD_STOP_FRAMES) =>
                /\ frame_streaming_enabled' = b
                /\ UNCHANGED <<capture_image_requested,
                               audio_streaming_enabled, NonFlagFields>>
       /\ \A b \in BOOLEAN :
            Interprets(IF b THEN CMD_START_AUDIO ELSE CMD_STOP_AUDIO) =>
                /\ audio_streaming_enabled' = b
                /\ UNCHANGED <<capture_image_requested,
                               frame_streaming_enabled, NonFlagFields>>]_vars

C14_Witness ==
    /\ last_write = CMD_STOP_AUDIO /\ ~audio_streaming_enabled
    /\ frame_streaming_enabled /\ capture_image_requested
    /\ frame_interval = 1500 /\ image_quality = 63

\* C15 as stated: every connect event, and every STATUS command received
\* while connected, hands exactly one status message to the link on the
\* status channel
C15_Original ==
    [][((~ble_device_connected /\ ble_device_connected')
            \/ (Interprets(CMD_STATUS) /\ ble_device_connected))
          => /\ Len(emitted') = Len(emitted) + 1
             /\ emitted'[Len(emitted')].handle = status_handle]_vars

(***************************************************************************)
(* linear_to_mulaw on its own.                                             *)
(***************************************************************************)
\* the magnitudes at which the encoder changes segment, clips or wraps
MulawEdges == {0, 32767, 32768, CLIP} \cup {Pow2(e + 8) - BIAS : e \in 0..7}

\* the int16_t values within MulawSpan of an edge, of either sign
MulawInputs ==
    {x \in {sg * (b + d) : sg \in {1, 0 - 1}, b \in MulawEdges,
                           d \in (0 - MulawSpan)..MulawSpan} :
        0 - 32768 <= x /\ x <= 32767}

MulawCall ==
    /\ \E x \in MulawInputs :
        /\ mulaw_in' = <<x>>
        /\ mulaw_out' = <<linear_to_mulaw(x)>>
    /\ UNCHANGED <<config_vars, handle_vars, task_vars, sic_vars, link_vars,
                   budget_vars, hist_vars, loop_hist, sensor, tick,
                   audio_vars, command_overrun, plan_in, plan_out>>

NextMulaw == MulawCall

SpecMulaw == Init /\ [][NextMulaw]_vars

\* the telephony mu-law encoder: the magnitude is clipped at CLIP and biased
\* by BIAS; the exponent is the segment of the biased magnitude, the mantissa
\* its four bits below the leading one; the byte is the complement of
\* sign | exponent | mantissa
Abs(x) == IF x < 0 THEN 0 - x ELSE x

G711Segment(m) == CHOOSE e \in 0..7 : Pow2(e + 7) <= m /\ m < Pow2(e + 8)

G711Encode(x) ==
    LET sign     == IF x < 0 THEN 128 ELSE 0
        m        == (IF Abs(x) > CLIP THEN CLIP ELSE Abs(x)) + BIAS
        exponent == G711Segment(m)
        mantissa == (m \div Pow2(exponent + 3)) % 16
    IN  255 - (sign + exponent * 16 + mantissa)

\* C20 as stated: for every signed 16-bit input linear_to_mulaw returns the
\* byte of the telephony mu-law encoder with bias 0x84 and clip 32635
C20_Original == mulaw_in # <<>> => mulaw_out = <<G711Encode(mulaw_in[1])>>

(***************************************************************************)
(* Properties of the audio path.                                           *)
(***************************************************************************)
\* a step in which send_audio_data has read a window
WindowStep ==
    /\ audio_pc = "send_audio" /\ audio_pc' = "audio_return"
    /\ audio_window' # <<>>

\* one packet of as many bytes as the window has samples went to the link on
\* the audio channel
OnePacket(out, w) ==
    /\ Len(out) = 1
    /\ out[1].handle = audio_handle
    /\ Len(out[1].data) = Len(w)

\* C16: adaptive_threshold starts at 50; a window with rms_level above twice
\* the threshold sets the threshold to rms_level / 4 before the gate test;
\* the window is then skipped exactly when rms_level is below the threshold,
\* and is otherwise encoded and sent
C16_Gate ==
    /\ []((last_audio_time = 0 /\ audio_pc # "audio_return")
            => adaptive_threshold = 50)
    /\ [][WindowStep =>
            LET raised == IF rms_level' > 2 * adaptive_threshold
                          THEN rms_level' \div 4
                          ELSE adaptive_threshold
            IN  /\ adaptive_threshold' = raised
                /\ IF rms_level' < raised
                   THEN audio_out' = <<>>
                   ELSE OnePacket(audio_out', audio_window')]_vars

C16_Witness ==
    /\ audio_pc = "audio_return" /\ audio_window = <<101>>
    /\ rms_level = 101 /\ adaptive_threshold = 25
    /\ Len(audio_out) = 1

\* C17 as stated: no window lowers adaptive_threshold
C17_Original == [][adaptive_threshold' >= adaptive_threshold]_vars

\* C18: a window whose level is below the current threshold produces no
\* packet and leaves adaptive_threshold and the filter's previous sample as
\* they were
C18_Silence ==
    [][(WindowStep /\ rms_level' < adaptive_threshold) =>
          /\ audio_out' = <<>>
          /\ adaptive_threshold' = adaptive_threshold
          /\ prev_sample' = prev_sample]_vars

C18_Witness ==
    /\ audio_pc = "audio_return" /\ audio_window = <<101>>
    /\ rms_level = 101 /\ adaptive_threshold = 8191
    /\ audio_out = <<>> /\ prev_sample = 32767

\* x >> 4 on a signed value
Asr4(x) == IF x >= 0 THEN x \div 16 ELSE 0 - ((15 - x) \div 16)

\* byte i of the packet of window w, the raw sample before w being before
Companded(w, before, i) ==
    LET prev_raw == IF i = 1 THEN before ELSE w[i - 1]
    IN  linear_to_mulaw(ToInt16(w[i] - Asr4(prev_raw * 15)))

\* C19: the packet of a non-silent window of n samples has n bytes, byte i
\* the code of sample_i - ((prev_raw * 15) >> 4) held in 16 bits, prev_raw
\* the raw sample processed just before sample_i, carried across windows
\* and 0 at the start
C19_Packet ==
    /\ []((last_audio_time = 0 /\ audio_pc # "audio_return")
            => prev_sample = 0 /\ raw_hist = 0)
    /\ [][(WindowStep /\ audio_out' # <<>>) =>
            /\ Len(audio_out'[1].data) = Len(audio_window')
            /\ \A i \in 1..Len(audio_window') :
                  audio_out'[1].data[i] = Companded(audio_window', raw_hist, i)]_vars

C19_Witness ==
    /\ audio_pc = "audio_return" /\ audio_window = <<32767, 101>>
    /\ raw_hist = 101 /\ last_audio_time > 0
    /\ Len(audio_out) = 1 /\ Len(audio_out[1].data) = 2

(***************************************************************************)
(* Clipping and the round trip of linear_to_mulaw.                         *)
(***************************************************************************)
\* the input of the sign of x with magnitude CLIP
Saturated(x) == IF x < 0 THEN 0 - CLIP ELSE CLIP

\* C21 as stated, for the encoder: an input whose magnitude exceeds 32635,
\* -32768 included, gets the code of the input of the same sign with
\* magnitude 32635
C21_Original ==
    (mulaw_in # <<>> /\ Abs(mulaw_in[1]) > CLIP)
        => mulaw_out = <<linear_to_mulaw(Saturated(mulaw_in[1]))>>

\* C21 as stated, for the filter: the difference handed to the encoder is
\* the difference itself, it has not wrapped around the 16-bit range
C21_FilterInRange ==
    [][(WindowStep /\ audio_out' # <<>>) =>
          \A i \in 1..Len(audio_window') :
              LET prev_raw == IF i = 1 THEN prev_sample ELSE audio_window'[i - 1]
                  diff     == audio_window'[i] - Asr4(prev_raw * 15)
              IN  Filtered(audio_window'[i], prev_raw) = diff]_vars

\* the inverse mu-law expansion of the telephony standard: the complement of
\* the byte is sign, exponent and mantissa; the magnitude is
\* ((mantissa << 3) + BIAS) << exponent, less BIAS
MulawExpand(u) ==
    LET c        == 255 - u
        exponent == (c \div 16) % 8
        mantissa == c % 16
        t        == (mantissa * 8 + BIAS) * Pow2(exponent)
    IN  IF c >= 128 THEN BIAS - t ELSE t - BIAS

\* x clipped to magnitude CLIP
Clipped(x) == IF x > CLIP THEN CLIP ELSE IF x < 0 - CLIP THEN 0 - CLIP ELSE x

\* the quantization step of the segment x falls in
SegmentStep(x) == Pow2(G711Segment(Abs(Clipped(x)) + BIAS) + 3)

\* the expansion of code is a value not of the other sign than x (the
\* smallest codes of either sign expand to 0) within one step of x
RoundTrips(x, code) ==
    LET y == MulawExpand(code) IN
        /\ (x < 0 => y <= 0) /\ (x >= 0 => y >= 0)
        /\ Abs(y - Clipped(x)) <= SegmentStep(x)

\* C22 as stated: for every signed 16-bit sample x the expansion of
\* linear_to_mulaw(x) has the sign of x and lies within the quantization
\* step of the segment of x from x clipped to magnitude 32635
C22_Original == mulaw_in # <<>> => RoundTrips(mulaw_in[1], mulaw_out[1])

\* the telephony encoder itself round-trips on the inputs of the model
C22_Reference ==
    mulaw_in # <<>> => RoundTrips(mulaw_in[1], G711Encode(mulaw_in[1]))

(***************************************************************************)
(* Properties of the streaming loop.                                       *)
(***************************************************************************)
\* frame_interval in ticks
IntervalTicks == (frame_interval * configTICK_RATE_HZ) \div 1000

\* send_image_chunks is running
InTransfer == pc \in {"sic_entry", "sic_chunk", "sic_free", "sic_end", "sic_return"}

\* a step that hands a packet of a transfer to the link
SendsPacket == Len(emitted') > Len(emitted)

\* C23: the loop goes to the periodic acquisition only from the top of an
\* iteration, having read the clock there and found frame_streaming_enabled
\* and the link connected and at least frame_interval elapsed since the
\* anchor; a periodic transfer starts only from that acquisition, runs in
\* the iteration that found the frame due, and no packet goes to the frame
\* channel outside it
C23_Periodic ==
    /\ [][(pc' = "frame_get" /\ pc # "frame_get") =>
            /\ pc = "loop_top"
            /\ frame_streaming_enabled /\ ble_device_connected
            /\ current_time' = tick
            /\ current_time' - last_frame_time >= IntervalTicks]_vars
    /\ [][(is_frame' /\ ~is_frame) => (pc = "frame_get" /\ pc' = "sic_entry")]_vars
    /\ []((pc = "frame_get" \/ is_frame) =>
              current_time - last_frame_time >= IntervalTicks)
    /\ [](is_frame => InTransfer)
    /\ [][(SendsPacket /\ emitted'[Len(emitted')].handle = frame_handle)
            => (is_frame /\ InTransfer)]_vars

C23_Witness ==
    /\ pc = "sic_return" /\ is_frame /\ sic_outcome = "complete"
    /\ Len(emitted) = MaxChunks + 2
    /\ ~frame_streaming_enabled
    /\ current_time - last_frame_time >= IntervalTicks

\* C24 as stated: when the periodic acquisition fails, the failure is
\* counted, the anchor stays where it was (it is not moved to the time of
\* the failed attempt) and the loop backs off for the short fixed delay, so
\* that the frame is due again at the next iteration
C24_Original ==
    [][(pc = "frame_get" /\ pc' = "loop_top") =>
          /\ failed_frames' = failed_frames + 1
          /\ last_frame_time' = last_frame_time
          /\ tick' = tick + pdMS_TO_TICKS(20)
          /\ FrameDue(tick', last_frame_time', frame_interval)]_vars

\* the other halves of C24 do hold: the failure is counted and the loop
\* backs off for the short fixed delay
C24_CountedAndBackedOff ==
    [][(pc = "frame_get" /\ pc' = "loop_top") =>
          /\ failed_frames' = failed_frames + 1
          /\ tick' = tick + pdMS_TO_TICKS(20)]_vars

\* a step that ends an iteration of the streaming loop
IterationEnds == pc # "loop_top" /\ pc' = "loop_top"

\* C25 as stated: an iteration that starts with capture_image_requested set
\* and the link connected (and keeps the link) has taken the request by the
\* time it ends, whether its periodic path was not due, sent a frame or
\* failed to acquire one
C25_Original == [][IterationEnds => oneshot # "pending"]_vars

\* C25 holds of the iterations that end with the delay at the bottom of the
\* loop: those whose periodic path was not due or sent a frame
C25_WithoutFailure ==
    [][(IterationEnds /\ pc = "sleep") => oneshot # "pending"]_vars

(***************************************************************************)
(* The channels.                                                           *)
(***************************************************************************)
\* the five characteristics have five handles
HandlesDistinct ==
    Cardinality({control_handle, status_handle, image_handle, frame_handle,
                 audio_handle}) = NumChars

\* C26: every packet of a periodic transfer goes to frame_handle, every
\* packet of a one-shot transfer to image_handle, every audio packet to
\* audio_handle, and none of them to another characteristic: the five
\* handles differ once the link can connect
C26_Channels ==
    /\ char_count = NumChars => HandlesDistinct
    /\ \A k \in 1..Len(emitted) :
          emitted[k].handle = IF is_frame THEN frame_handle ELSE image_handle
    /\ \A k \in 1..Len(audio_out) : audio_out[k].handle = audio_handle
    /\ (emitted # <<>> \/ audio_out # <<>>) => char_count = NumChars

C26_Witness ==
    /\ pc = "sic_end" /\ is_frame /\ Len(emitted) = 3
    /\ emitted[2].handle = AttrHandle(4)
    /\ audio_pc = "audio_return" /\ Len(audio_out) = 1
    /\ audio_out[1].handle = AttrHandle(5)
    /\ capture_image_requested

\* C27: the loop clears capture_image_requested in the step that follows the
\* test that found it set, and acquires the one-shot frame only after that
\* step; the one-shot captures served never exceed the CAPTURE commands
\* received (capture_credit counts the commands less the captures, and stops
\* counting commands at MaxCredit)
C27_AtMostOnce ==
    /\ [](capture_credit >= 0)
    /\ [][(pc = "capture_check" /\ pc' # pc) =>
            pc' = IF capture_image_requested /\ ble_device_connected
                  THEN "capture_clear" ELSE "sleep"]_vars
    /\ [][(pc = "capture_clear" /\ pc' # pc) =>
            (~capture_image_requested' /\ pc' = "single_get")]_vars
    /\ [][(pc' = "single_get" /\ pc # "single_get") => pc = "capture_clear"]_vars
    /\ [][(capture_credit' < capture_credit) =>
            (pc = "single_get" /\ capture_credit' = capture_credit - 1)]_vars

\* two CAPTURE commands, one capture served, no request left: one was lost
C27_Witness ==
    /\ pc = "sic_entry" /\ ~is_frame
    /\ capture_credit = 1 /\ ~capture_image_requested

(***************************************************************************)
(* The guard of the audio path.                                            *)
(***************************************************************************)
\* C28: send_audio_data is called only from the top of an iteration of
\* audio_task that read the clock and found audio_streaming_enabled, the
\* link connected and at least the audio period elapsed; a packet is handed
\* to the link only in that call, on a connected link; and only when
\* init_microphone ran to its end (both buffers, the driver, the pins and
\* the PDM setting): after any failed step no packet is ever sent and
\* send_audio_data is never called
C28_AudioGuard ==
    /\ [][(audio_pc' = "send_audio" /\ audio_pc # "send_audio") =>
            /\ audio_pc = "audio_top"
            /\ audio_streaming_enabled /\ ble_device_connected
            /\ audio_time' = tick
            /\ audio_time' - last_audio_time
                  >= (100 * configTICK_RATE_HZ) \div 1000]_vars
    /\ [][(audio_out' # <<>> /\ audio_out' # audio_out) =>
            (audio_pc = "send_audio" /\ ble_device_connected)]_vars
    /\ [](audio_out # <<>> =>
            /\ mic.step = "ok"
            /\ mic.audio_buffer = "allocated" /\ mic.mulaw_buffer = "allocated"
            /\ mic.i2s_driver_installed /\ mic.audio_initialized)
    /\ [](mic.step # "ok" =>
            (audio_out = <<>> /\ audio_pc \in {"audio_top", "audio_sleep"}))

C28_Witness ==
    /\ audio_pc = "audio_return" /\ Len(audio_out) = 1
    /\ mic.step = "ok" /\ audio_time >= 10
    /\ ~audio_streaming_enabled

\* a failed initialization with the audio flag set by command and the audio
\* period elapsed
C28_WitnessFailed ==
    /\ mic.step = "no_downsample" /\ audio_streaming_enabled
    /\ ble_device_connected /\ audio_pc = "audio_sleep"
    /\ audio_time - last_audio_time >= 10

(***************************************************************************)
(* Disabling frame streaming.                                              *)
(***************************************************************************)
\* a periodic transfer that runs, or has just returned, with
\* frame_streaming_enabled cleared
StoppedTransfer == is_frame /\ InTransfer /\ ~frame_streaming_enabled

\* C29: STOP_FRAMES takes effect at the next test at the top of the loop.
\* The step that clears frame_streaming_enabled changes nothing of a
\* transfer in progress; a periodic transfer running with the flag cleared
\* leaves the chunk loop only through the end packet or a failed
\* allocation, and when it returns without a failed allocation every data
\* packet and the end packet were handed to the link, in order; the loop
\* goes from its top to the periodic acquisition only with the flag set,
\* so that between two START_FRAMES commands at most one periodic transfer
\* starts with the flag cleared
C29_StopAtNextCheck ==
    /\ [][(frame_streaming_enabled /\ ~frame_streaming_enabled') =>
            UNCHANGED <<pc, emitted, sic_outcome, chunk_idx, total_chunks,
                        image_len, is_frame>>]_vars
    /\ [][(StoppedTransfer /\ pc \in {"sic_chunk", "sic_free", "sic_end"}
              /\ pc' = "sic_return")
            => sic_outcome' \in {"complete", "alloc_failed"}]_vars
    /\ []((StoppedTransfer /\ Returned /\ StartSent
              /\ sic_outcome # "alloc_failed")
            => (AllAttempted /\ EndsWithEnd))
    /\ [][(pc = "loop_top" /\ pc' = "frame_get")
            => frame_streaming_enabled]_vars
    /\ [](stale_starts <= 1)

\* a two-chunk periodic transfer that started with the flag set has
\* returned complete with the flag cleared
C29_Witness ==
    /\ StoppedTransfer /\ Returned /\ sic_outcome = "complete"
    /\ stale_starts = 0 /\ total_chunks = 2 /\ AllAttempted

\* one frame period after a transfer that started with the flag cleared,
\* the top of the loop has declined the periodic frame
C29_WitnessDeclined ==
    /\ stale_starts = 1 /\ pc = "capture_check" /\ ble_device_connected
    /\ ~frame_streaming_enabled /\ frame_count = 1
    /\ current_time - last_frame_time >= IntervalTicks

(***************************************************************************)
(* The scratch buffer of the chunk loop.                                   *)
(***************************************************************************)
\* C30: the scratch buffer is held only between the allocation and the
\* free of one turn of the chunk loop: wherever send_image_chunks moves to
\* the next chunk, to the end packet or to its return, no buffer is
\* allocated, whatever the send returned. A failed allocation holds no
\* buffer, hands no further packet of the transfer to the link (no data
\* packet, no end packet) and returns; the streaming loop can then go on:
\* it gives the frame back and moves to the one-shot test or to its delay
C30_ScratchReleased ==
    /\ [](pc # "sic_free" => chunk_packet = NULL)
    /\ [][(pc = "sic_free" /\ pc' # pc) =>
            (chunk_packet' = NULL /\ pc' \in {"sic_chunk", "sic_end"})]_vars
    /\ [][(sic_outcome' = "alloc_failed" /\ sic_outcome # "alloc_failed") =>
            /\ pc = "sic_chunk" /\ pc' = "sic_return"
            /\ emitted' = emitted /\ chunk_packet' = NULL]_vars
    /\ []((pc = "sic_return" /\ sic_outcome = "alloc_failed") =>
            /\ NoEndPacket
            /\ Len(emitted) = 1 + chunk_idx /\ chunk_idx < total_chunks
            /\ ENABLED SicReturn)
    /\ [][(pc = "sic_return" /\ sic_outcome = "alloc_failed" /\ pc' # pc) =>
            /\ pc' \in {"capture_check", "sleep"}
            /\ fb' = NULL /\ emitted' = <<>> /\ chunk_packet' = NULL]_vars

\* the loop has moved to the second chunk after a failed send of the first
C30_Witness ==
    /\ pc = "sic_chunk" /\ chunk_idx = 1 /\ Len(emitted) = 2
    /\ emitted[2].ret = ESP_FAIL /\ chunk_packet = NULL

\* the allocation for the second chunk has failed
C30_WitnessNoMem ==
    /\ pc = "sic_return" /\ sic_outcome = "alloc_failed"
    /\ chunk_idx = 1 /\ total_chunks = 2 /\ Len(emitted) = 2

(***************************************************************************)
(* The frames of the camera driver.                                        *)
(***************************************************************************)
InLoopBody == pc \in {"loop_top", "frame_get", "capture_check",
                      "capture_clear", "single_get", "sleep"}

\* C31: a frame is taken from the driver only by the periodic and the
\* one-shot acquisition, each entering send_image_chunks with it; it is
\* given back once, by the step that follows the return of
\* send_image_chunks, whatever the transfer did (no-op, failed header,
\* failed allocation, failed sends, complete); wherever the loop tests,
\* sleeps or starts an iteration no frame is out, and during a transfer
\* exactly one is
C31_FrameReleased ==
    /\ [](InLoopBody => sensor.frames_out = 0)
    /\ [](InTransfer => sensor.frames_out = 1)
    /\ [][sensor'.frames_out > sensor.frames_out =>
            /\ pc \in {"frame_get", "single_get"} /\ pc' = "sic_entry"
            /\ sensor'.frames_out = sensor.frames_out + 1]_vars
    /\ [][sensor'.frames_out < sensor.frames_out =>
            /\ pc = "sic_return" /\ pc' \in {"capture_check", "sleep"}
            /\ sensor'.frames_out = sensor.frames_out - 1]_vars
    /\ [][(pc = "sic_return" /\ pc' # pc) =>
            sensor'.frames_out = sensor.frames_out - 1]_vars

\* the frame of the first periodic transfer has been given back, in a
\* behaviour in which the one fault has happened
C31_Witness ==
    /\ pc = "capture_check" /\ frame_count = 1 /\ failed_frames = 0
    /\ sensor.frames_out = 0 /\ faults = MaxFaults

(***************************************************************************)
(* Transfers and sessions.                                                 *)
(***************************************************************************)
\* C32 as stated: every data or end packet handed to a connected link goes
\* to the connection on which the start packet of its transfer was sent: no
\* packet of a transfer that began in an earlier session is sent in a later
\* one
C32_Original ==
    [][(SendsPacket /\ ble_device_connected /\ Len(emitted') >= 2) =>
          conn_id = xfer_conn]_vars

\* what does hold: a transfer is entered with a start packet on the current
\* connection or not at all, and conn_id names the latest connection
C32_CurrentConnection ==
    /\ [][(pc = "sic_entry" /\ pc' \in {"sic_chunk", "sic_end"}) =>
            /\ ble_device_connected /\ Len(emitted') = 1
            /\ emitted'[1].data[1] = 1 /\ xfer_conn' = link_sessions]_vars
    /\ [](conn_id = link_sessions)
    /\ [](InLoopBody => xfer_conn = 0)

(***************************************************************************)
(* Capture misses.                                                         *)
(***************************************************************************)
\* C33 as stated: a failed acquisition leaves its request standing, so that
\* a later iteration attempts it again without a new command: after a
\* failed periodic acquisition frame_streaming_enabled is as it was, and
\* after a failed one-shot acquisition capture_image_requested is set
C33_Original ==
    /\ [][(pc = "frame_get" /\ pc' = "loop_top") =>
            UNCHANGED frame_streaming_enabled]_vars
    /\ [][(pc = "single_get" /\ pc' = "sleep") =>
            capture_image_requested']_vars

\* the periodic half of C33 holds: a failed periodic acquisition goes back
\* to the top of the loop with frame_streaming_enabled as it was, and a
\* failed one-shot acquisition goes on to the delay of the loop
C33_NeverFatal ==
    /\ [][(pc = "frame_get" /\ pc' = "loop_top") =>
            UNCHANGED frame_streaming_enabled]_vars
    /\ [][(pc = "single_get" /\ pc' # pc) =>
            pc' \in {"sleep", "sic_entry"}]_vars

\* the periodic acquisition is attempted again one frame period after it
\* failed
C33_PeriodicRetry ==
    /\ pc = "frame_get" /\ failed_frames = 1 /\ frame_count = 0
    /\ last_frame_time = 3 /\ current_time = 6 /\ frame_streaming_enabled


(***************************************************************************)
(* The cadence under capture failures.                                     *)
(***************************************************************************)
\* C34: a failed periodic acquisition moves the anchor to the time its
\* iteration read the clock; an acquisition is attempted only when at least
\* frame_interval has elapsed since the anchor, so two consecutive attempts
\* are at least frame_interval apart; and at the end of the backoff that
\* follows a failure the frame is not due again
C34_AnchorOnFailure ==
    /\ [][(pc = "frame_get" /\ pc' = "loop_top") =>
            /\ last_frame_time' = current_time
            /\ current_time' = current_time
            /\ tick' = tick + pdMS_TO_TICKS(20)
            /\ ~FrameDue(tick', last_frame_time', frame_interval)]_vars
    /\ [][(pc = "loop_top" /\ pc' = "frame_get") =>
            current_time' - last_frame_time >= IntervalTicks]_vars
    /\ [](failed_frames > 0 => last_frame_time >= IntervalTicks)
    /\ []((pc = "frame_get" /\ failed_frames > 0 /\ frame_count = 0) =>
            current_time - last_frame_time >= IntervalTicks)

\* with no camera, streaming enabled and the link up: the iteration after
\* the backoff that followed the failed attempt of tick 3 has declined the
\* frame
C34_Witness ==
    /\ ~sensor.available /\ frame_streaming_enabled /\ ble_device_connected
    /\ failed_frames = 1 /\ last_frame_time = 3
    /\ current_time = 5 /\ pc = "capture_check"

\* and the next attempt comes one frame period after the failed one
C34_WitnessNextAttempt ==
    /\ ~sensor.available /\ frame_streaming_enabled /\ ble_device_connected
    /\ failed_frames = 1 /\ last_frame_time = 3
    /\ current_time = 6 /\ pc = "frame_get"


(***************************************************************************)
(* One transfer at a time.                                                 *)
(***************************************************************************)
\* the packets handed to the link since the start packet are those of one
\* transfer, in its order and on its characteristic
OneTransfer ==
    /\ Len(emitted) <= total_chunks + 2
    /\ \A k \in 1..Len(emitted) :
          /\ emitted[k].handle = char_handle
          /\ Marker(emitted[k]) = IF k = 1 THEN 1
                                  ELSE IF k <= total_chunks + 1 THEN 2 ELSE 3
          /\ Marker(emitted[k]) = 2 => Field16(emitted[k]) = k - 2

\* C35: the chunked packets come from the one streaming loop: a start packet
\* is handed to the link only at the entry of send_image_chunks, when no
\* packet of an earlier transfer is left unsent (the earlier call has
\* returned); from there to the return every chunked packet, on whatever
\* characteristic, is the next packet of that transfer; the audio loop
\* sends on its own, at any point of a transfer
C35_OneTransfer ==
    /\ [](emitted # <<>> => (InTransfer /\ pc # "sic_entry"))
    /\ [](emitted # <<>> => OneTransfer)
    /\ [][(emitted' # emitted /\ emitted' # <<>>) =>
            /\ pc \in {"sic_entry", "sic_chunk", "sic_end"}
            /\ IF pc = "sic_entry"
               THEN emitted = <<>> /\ Len(emitted') = 1
               ELSE Len(emitted') = Len(emitted) + 1
                    /\ SubSeq(emitted', 1, Len(emitted)) = emitted]_vars
    /\ [][(emitted # <<>> /\ emitted' = <<>>) => pc = "sic_return"]_vars
    /\ [][audio_out' # audio_out => UNCHANGED <<emitted, pc>>]_vars

\* in the middle of a periodic transfer (start packet and chunk 0 sent,
\* chunk 1 and the end packet to come) the audio loop is about to send a
\* packet
C35_Witness ==
    /\ is_frame /\ pc = "sic_chunk" /\ chunk_idx = 1 /\ Len(emitted) = 2
    /\ total_chunks = 2
    /\ audio_pc = "send_audio" /\ ENABLED ChanSendAudioWindow


(***************************************************************************)
(* The one-shot request under failing periodic acquisitions.               *)
(***************************************************************************)
\* C36 as stated: with the streaming loop scheduled fairly and the link
\* staying connected, a capture_image_requested that is set is eventually
\* cleared by the loop, whatever the periodic path does
C36_Original ==
    (capture_image_requested /\ ble_device_connected)
        ~> ~capture_image_requested

\* what holds: the request is cleared, unless the clock moves while a
\* periodic acquisition is blocked in esp_camera_fb_get
C36_UnlessBlocked ==
    (capture_image_requested /\ ble_device_connected)
        ~> (~capture_image_requested
              \/ (pc = "frame_get" /\ tick # current_time))


(***************************************************************************)
(* Disconnect and reconnect.                                               *)
(***************************************************************************)
\* the settings, the flags set by command and the pending capture
Requests == <<frame_streaming_enabled, audio_streaming_enabled,
              capture_image_requested, frame_interval, image_quality,
              current_frame_size>>

\* C37: the step that clears ble_device_connected changes nothing else of
\* the program's state; the step that sets it leaves the settings, the
\* flags and the pending capture as they were; and the loop tests the same
\* flags in every session, so that with the flags kept it takes the
\* periodic frame and the pending capture after the next connect
C37_DisconnectKeepsRequests ==
    /\ [][(ble_device_connected /\ ~ble_device_connected') =>
            UNCHANGED <<Requests, handle_vars, task_vars, sic_vars,
                        link_vars, sensor, tick, rest_vars>>]_vars
    /\ [][(~ble_device_connected /\ ble_device_connected') =>
            UNCHANGED <<Requests, handle_vars, task_vars, sic_vars,
                        sensor, tick>>]_vars
    /\ [][(pc = "capture_check" /\ pc' # pc
              /\ capture_image_requested /\ ble_device_connected) =>
            pc' = "capture_clear"]_vars
    /\ [][(pc = "loop_top" /\ pc' # pc /\ frame_streaming_enabled
              /\ ble_device_connected
              /\ FrameDue(tick, last_frame_time, frame_interval)) =>
            pc' = "frame_get"]_vars

\* in the second session the loop has taken the periodic frame and then
\* found the capture still pending
C37_Witness ==
    /\ link_sessions = 2 /\ ble_device_connected
    /\ frame_streaming_enabled /\ capture_image_requested
    /\ frame_count = 1 /\ pc = "capture_clear"


(***************************************************************************)
(* The registration of the characteristics.                                *)
(***************************************************************************)
Handles == <<control_handle, status_handle, image_handle, frame_handle,
             audio_handle>>

\* C38: every ESP_GATTS_ADD_CHAR_EVT counts; the n-th event, n from 1 to 5,
\* stores the handle it reports (that of the characteristic, or 0 with an
\* error status) as the control, status, image, frame or audio handle in
\* that order and leaves the four others; the 1st to the 4th also ask for
\* the next characteristic, whatever the status; an event after the fifth
\* stores nothing and asks for nothing
C38_ByArrivalCount ==
    /\ [][char_count' # char_count =>
            LET n == char_count + 1 IN
                /\ char_count' = n
                /\ n <= NumChars =>
                      \/ Handles' = [Handles EXCEPT ![n] = AttrHandle(n)]
                      \/ Handles' = [Handles EXCEPT ![n] = 0]
                /\ n > NumChars => UNCHANGED Handles
                /\ char_requests' = IF n <= 4 THEN char_requests + 1
                                    ELSE char_requests]_vars
    /\ [][Handles' # Handles => char_count' = char_count + 1]_vars
    /\ [](char_requests = IF char_count < NumChars THEN char_count + 1
                          ELSE NumChars)

\* the second event reported an error, the others did not; a sixth and a
\* seventh event have come: five requests were made and the handles are
\* those of the first five events
C38_Witness ==
    /\ char_count = NumChars + 2 /\ char_requests = NumChars
    /\ Handles = <<AttrHandle(1), 0, AttrHandle(3), AttrHandle(4),
                   AttrHandle(5)>>


(***************************************************************************)
(* The arithmetic of send_image_chunks on its own.  size_t is 32 bits wide *)
(* on the target; a size_t that may exceed 2^31 - 1 is kept as its two     *)
(* 16-bit halves <<high, low>>.                                            *)
(***************************************************************************)
Half == 65536

\* the halves of a size_t given as a number
ToSize(n) == <<n \div Half, n % Half>>

\* size_t addition of a small non-negative number: the sum modulo 2^32
SizeAdd(L, k) ==
    <<(L[1] + (L[2] + k) \div Half) % Half, (L[2] + k) % Half>>

\* size_t division by a small divisor: schoolbook division of the halves;
\* the quotient by max_chunk_size is below 2^24
SizeDiv(L, d) ==
    (L[1] \div d) * Half + ((L[1] % d) * Half + L[2]) \div d

\* total_chunks = (image_len + max_chunk_size - 1) / max_chunk_size in size_t
TotalChunks32(L) == SizeDiv(SizeAdd(L, max_chunk_size - 1), max_chunk_size)

\* the start header of a transfer whose length is given by its halves
StartHeader32(chunks, L) ==
    <<1, Byte(chunks, 256), Byte(chunks, 1),
      Byte(L[2], 1), Byte(L[2], 256), Byte(L[1], 1), Byte(L[1], 256)>>

\* what send_image_chunks computes for image_len L: the chunk count, the
\* start and end headers, and, when the loop counter is k, the first three
\* bytes of the chunk packet (none when k has reached total_chunks)
PlanOf(L, k) ==
    LET chunks == TotalChunks32(L) IN
        [total_chunks |-> chunks,
         start |-> StartHeader32(chunks, L),
         chunk_idx |-> k,
         chunk |-> IF k < chunks THEN ChunkMarker(k) ELSE <<>>,
         end |-> EndHeader(chunks)]

\* L moved by d, which may be negative; outside 1 .. 2^32 - 1 the high half
\* leaves 0 .. 65535 or both halves are 0
SizeShift(L, d) ==
    <<L[1] + (L[2] + d + Half) \div Half - 1, (L[2] + d + Half) % Half>>

\* the lengths at which the chunk count, its 16-bit field, the 16-bit index
\* or the 32-bit sum changes behaviour
PlanEdges ==
    {ToSize(1), ToSize(max_chunk_size), ToSize(max_chunk_size * 65535),
     ToSize(max_chunk_size * 65536), <<65535, Half - max_chunk_size>>,
     <<65535, 65535>>}

\* the values of size_t from 1 to 2^32 - 1 within PlanSpan of an edge
PlanInputs ==
    {L \in {SizeShift(E, d) : E \in PlanEdges, d \in (0 - PlanSpan)..PlanSpan} :
        /\ L[1] \in 0..65535
        /\ L # <<0, 0>>}

\* the values the loop counter takes within PlanSpan of its first value, of
\* the wrap of the 16-bit index and of its last value
PlanPositions(chunks) ==
    {k \in {e + d : e \in {0, 65535, 65536, chunks},
                    d \in (0 - PlanSpan)..PlanSpan} :
        0 <= k /\ k <= chunks}

PlanCall ==
    /\ \E L \in PlanInputs :
         \E k \in PlanPositions(TotalChunks32(L)) :
            /\ plan_in' = <<L>>
            /\ plan_out' = <<PlanOf(L, k)>>
    /\ UNCHANGED <<config_vars, handle_vars, task_vars, sic_vars, link_vars,
                   budget_vars, hist_vars, loop_hist, sensor, tick,
                   audio_vars, command_overrun, mulaw_in, mulaw_out>>

NextPlan == PlanCall

SpecPlan == Init /\ [][NextPlan]_vars

\* ceil(L / d) in exact arithmetic, for L >= 1
SizeCeilDiv(L, d) == SizeDiv(SizeShift(L, 0 - 1), d) + 1

\* C39 as stated: for every length from 1 to 2^32 - 1 the chunk count in the
\* start and end packets is ceil(total_length / 510), and the index in every
\* data packet is its 0-based position in the transfer
C39_Original ==
    plan_in # <<>> =>
        LET L == plan_in[1]
            plan == plan_out[1]
        IN  /\ Field16([data |-> plan.start]) = SizeCeilDiv(L, max_chunk_size)
            /\ Field16([data |-> plan.end]) = SizeCeilDiv(L, max_chunk_size)
            /\ plan.chunk # <<>> => Field16([data |-> plan.chunk]) = plan.chunk_idx

\* C39, what the code does: the count computed is ceil(total_length / 510)
\* when total_length + 509 fits 32 bits and 0 otherwise; the fields hold the
\* count and the position modulo 2^16
C39_Modulo ==
    plan_in # <<>> =>
        LET L == plan_in[1]
            plan == plan_out[1]
            fits == L[1] < 65535 \/ L[2] <= Half - max_chunk_size
            count == IF fits THEN SizeCeilDiv(L, max_chunk_size) ELSE 0
        IN  /\ plan.total_chunks = count
            /\ Field16([data |-> plan.start]) = count % Half
            /\ Field16([data |-> plan.end]) = count % Half
            /\ plan.chunk # <<>> => Field16([data |-> plan.chunk]) = plan.chunk_idx % Half

\* C39: a transfer whose count and index wrapped
C39_Wrapped ==
    /\ plan_in = <<ToSize(max_chunk_size * 65536 + 1)>>
    /\ plan_out # <<>>
    /\ plan_out[1].total_chunks = 65537
    /\ Field16([data |-> plan_out[1].start]) = 1
    /\ plan_out[1].chunk_idx = 65536
    /\ Field16([data |-> plan_out[1].chunk]) = 0


\* the sum of the squares of w divided by the sample count, in exact
\* arithmetic: the quotients and the remainders by n are summed apart
RECURSIVE QuotSum(_, _, _)
QuotSum(w, i, n) ==
    IF i > Len(w) THEN 0 ELSE ((w[i] * w[i]) \div n) + QuotSum(w, i + 1, n)

RECURSIVE RemSum(_, _, _)
RemSum(w, i, n) ==
    IF i > Len(w) THEN 0 ELSE ((w[i] * w[i]) % n) + RemSum(w, i + 1, n)

MeanSquare(w) == QuotSum(w, 1, Len(w)) + (RemSum(w, 1, Len(w)) \div Len(w))

\* C40 as stated: for every window read, rms_level is the integer square
\* root of the sum of the squared samples divided by the sample count
C40_Original ==
    audio_window # <<>> => rms_level = Isqrt(MeanSquare(audio_window), 0, 46340)

\* C40, what the code does: rms_level is that square root when the sum of the
\* squares fits the signed 32-bit accumulator and the root fits int16_t
C40_WhenRepresentable ==
    (/\ audio_window # <<>>
     /\ RmsSum(audio_window, 1, 0) >= 0
     /\ MeanSquare(audio_window) < 32768 * 32768)
        => rms_level = Isqrt(MeanSquare(audio_window), 0, 46340)

\* C40: a window whose sum of squares passes INT32_MAX was read
C40_AccumulatorOverflow ==
    /\ audio_window = <<0 - 32768, 0 - 32768>>
    /\ RmsSum(audio_window, 1, 0) < 0

\* C40: a window whose level is 32768 was read
C40_ResultOverflow ==
    /\ audio_window = <<0 - 32768>>
    /\ RmsSum(audio_window, 1, 0) = 32768 * 32768
    /\ rms_level \in UndefinedLevels

=============================================================================
